---- MODULE Spec2Model ----
(***************************************************************************)
(* Version resolution and build gating of bitnami-pgvector.                *)
(*                                                                         *)
(* getVars (src/src/getVars.ts) resolves, for a PostgreSQL major version,  *)
(* the Bitnami base tag and the pgvector version, composes the image tags  *)
(* and asks the registry whether the image exists.  runBuild               *)
(* (src/src/build.ts) calls getVars and decides whether to invoke          *)
(* `docker buildx build`.  The pg_search (ParadeDB) tag selection and the  *)
(* versions hash belong to a revision of getVars.ts that is not among the  *)
(* sources; they are modelled from the specification and from the tests    *)
(* of that revision (src/unnamed/part_005, src/unnamed/part_006).          *)
(*                                                                         *)
(* Strings are sequences of tokens, so that prefix, suffix, substring and  *)
(* concatenation are computed and not assumed.                             *)
(***************************************************************************)
EXTENDS Naturals, Integers, Sequences, FiniteSets, TLC

VARIABLES
    caller,          \* who runs getVars: "main", "import" or "runBuild"
    arg,             \* pgMajorVersionInput
    push,            \* options.push of runBuild
    env,             \* Bun.env: variable name -> string or Undefined
    pc,              \* position of the run
    pgMajorVersion,  \* getVars.ts:99
    data,            \* the tag-listing response the last fetch received
    bitnamiName,     \* getVars.ts:108
    pgvectorName,    \* getVars.ts:120
    pgSearchName,    \* extension B tag
    repoName,        \* getVars.ts:125
    imageVars,       \* the ImageVars object getVars returned, NoVars before
    checkedTag,      \* the label handed to `docker manifest inspect`
    registry,        \* labels present in the target registry
    warnings,        \* console.warn calls, in order
    errors,          \* console.error calls, in order
    exitCode,        \* process.exit status, -1 while the process runs
    thrown,          \* the uncaught error of the run, "" if none
    buildCalls,      \* number of `docker buildx build` invocations
    completed,       \* "Build completed successfully!" was logged
    inspectExit,     \* how the last `docker manifest inspect` ended, "none" before
    requests,        \* the repositories whose tag listing this run has requested
    upstream,        \* the tag listings the upstream registry holds, when a scenario fixes them
    firstVars,       \* the ImageVars of the run before this one, NoVars in a first run
    cmp,             \* two resolved version sets and their labels, composed side by side
    command,         \* the arguments of the last `docker buildx build`, NoCommand before
    gateRegistry,    \* labels a registry holds while checkImageExists is called repeatedly
    gateLabel,       \* the label each of those calls is given
    gateCalls,       \* the calls made so far: registry contents, exit and answer of each
    sink,            \* the file GITHUB_OUTPUT names, shared by concurrent runs
    runs,            \* concurrent getVars runs: position and ImageVars of each
    options,         \* program.opts() of the README updater
    readmePc,        \* position of the README updater
    readmeFile,      \* the README file on disk
    readmeContent,   \* readmeContent of main
    writes,          \* writeFileSync calls of the README updater, in order
    markdown,        \* the markdown text handed to the badge manager, as its badges
    badgeUpdate,     \* badgeIndex and options of updateBadgeInMarkdown
    updatedMarkdown, \* what updateBadgeInMarkdown returned
    container,       \* state of the test database container
    runnerPc,        \* position of the test runner
    testExitCode,    \* testExitCode of runTests
    pgOption,        \* --pg of run-tests
    polls,           \* pg_isready checks made by waitForDbReady
    maxRetries,      \* parameter of connectWithRetry
    retries,         \* retries of connectWithRetry
    clients,         \* the pg clients connectWithRetry has created, in order
    retryPc,         \* position of connectWithRetry
    retryError       \* the error connectWithRetry rejects with

\* the variables of getVars and runBuild
getVarsVars == <<caller, arg, push, env, pc, pgMajorVersion, data, bitnamiName,
                 pgvectorName, pgSearchName, repoName, imageVars, checkedTag, registry,
                 warnings, errors, exitCode, thrown, buildCalls, completed,
                 inspectExit, requests, upstream, firstVars, cmp, command>>

gateVars == <<gateRegistry, gateLabel, gateCalls>>

sinkVars == <<sink, runs>>

readmeVars == <<options, readmePc, readmeFile, readmeContent, writes>>

badgeVars == <<markdown, badgeUpdate, updatedMarkdown>>

runnerVars == <<container, runnerPc, testExitCode, pgOption, polls>>

retryVars == <<maxRetries, retries, clients, retryPc, retryError>>

\* the variables of the programs around getVars
toolVars == <<gateVars, sinkVars, readmeVars, badgeVars, runnerVars, retryVars>>

vars == <<caller, arg, push, env, pc, pgMajorVersion, data, bitnamiName,
          pgvectorName, pgSearchName, repoName, imageVars, checkedTag, registry,
          warnings, errors, exitCode, thrown, buildCalls, completed,
          inspectExit, requests, upstream, firstVars, cmp, command, toolVars>>

\* a program that does not run in the scenario at hand
Unused == "unused"

GateIdle == gateRegistry = Unused /\ gateLabel = Unused /\ gateCalls = Unused

SinkIdle == sink = Unused /\ runs = Unused

ReadmeIdle ==
    /\ options = Unused
    /\ readmePc = Unused
    /\ readmeFile = Unused
    /\ readmeContent = Unused
    /\ writes = Unused

BadgeIdle == markdown = Unused /\ badgeUpdate = Unused /\ updatedMarkdown = Unused

RunnerIdle ==
    /\ container = Unused /\ runnerPc = Unused /\ testExitCode = Unused
    /\ pgOption = Unused /\ polls = Unused

RetryIdle ==
    /\ maxRetries = Unused /\ retries = Unused /\ clients = Unused /\ retryPc = Unused
    /\ retryError = Unused

ToolsIdle == GateIdle /\ SinkIdle /\ ReadmeIdle /\ BadgeIdle /\ RunnerIdle /\ RetryIdle

-----------------------------------------------------------------------------
(* Bounds of the model *)

\* longest tag list a registry answers with in a whole run
MaxTags == 1
\* longest tag list a registry answers with when a selection is studied alone
MaxListLen == 3
\* last_updated timestamps range over 1..MaxTime
MaxTime == 2
\* calls of checkImageExists against one registry
MaxGateCalls == 2
\* getVars runs that share one GITHUB_OUTPUT file
MaxRuns == 2
\* badges in the markdown text handed to the badge manager
MaxBadges == 2
\* pg_isready checks that fit into the timeout of waitForDbReady
MaxPolls == 4
\* largest maxRetries handed to connectWithRetry (its default is 5)
MaxMaxRetries == 5

-----------------------------------------------------------------------------
(* Strings *)

Empty == <<>>
\* JavaScript undefined and null, distinct from every string
Undefined == <<"<undefined>">>
Null == <<"<null>">>

\* a ?? b
Nullish(a, b) == IF a = Undefined \/ a = Null THEN b ELSE a
\* !s for a string | null | undefined
Falsy(s) == s = Undefined \/ s = Null \/ s = Empty

startsWith(s, p) == Len(p) <= Len(s) /\ SubSeq(s, 1, Len(p)) = p
endsWith(s, p) == Len(p) <= Len(s) /\ SubSeq(s, Len(s) - Len(p) + 1, Len(s)) = p
includes(s, t) == \E i \in 1..(Len(s) + 1) : i + Len(t) - 1 <= Len(s) /\ SubSeq(s, i, i + Len(t) - 1) = t

-----------------------------------------------------------------------------
(* Program constants *)

DEFAULT_PGVECTOR_VERSION == <<"0.8.0">>
DEFAULT_BITNAMI_POSTGRES_VERSION == <<"17", ".", "2.0", "-debian-", "12-r1">>
DEFAULT_PG_SEARCH_VERSION == <<"0.15.18">>
DEFAULT_REGISTRY == <<"ghcr.io">>

M16 == <<"16">>
M17 == <<"17">>

-----------------------------------------------------------------------------
(* Tag records and tag-listing responses *)

\* names the Bitnami tag listing can hold for the query name=17. or name=16.
BitnamiNames ==
    { <<"17", ".", "1.0", "-debian-", "11-r5">>,
      <<"17", ".", "2.0", "-debian-", "12-r1">>,
      <<"17", ".", "3.0", "-photon-", "5-r0">>,
      <<"16", ".", "17", ".", "0", "-debian-", "12-r2">>,
      <<"16", ".", "4.0", "-debian-", "12-r3">> }

\* version parts made of digits and dots only
NumericVersions == { <<"0.15.18">>, <<"0.15.17">>, <<"0.14.6">> }

\* names the ParadeDB tag listing can hold for the query name=-pg17 or name=-pg16
ParadeDBNames ==
    { <<"0.15.18", "-pg", "17">>,
      <<"0.15.17", "-pg", "17">>,
      <<"0.15.19", "-rc.0", "-pg", "17">>,
      <<"latest", "-pg", "17">>,
      <<"0.14.6", "-rc.1", "-pg", "16">>,
      <<"latest", "-pg", "16">>,
      <<"0.15.18", "-pg", "17", "-dev">> }

Times == 1..MaxTime

DockerHubTag(Names) == [name : Names, last_updated : Times]

\* sequences of at most max tag records with pairwise distinct names
TagLists(Names, max) ==
    { l \in UNION { [1..n -> DockerHubTag(Names)] : n \in 0..max } :
        \A i, j \in 1..Len(l) : i # j => l[i].name # l[j].name }

\* what one GET of the tag-listing endpoint can produce
Responses(Names, max) ==
    { [kind |-> "network_error", results |-> <<>>],   \* fetch() rejects
      [kind |-> "http_error", results |-> <<>>],      \* !response.ok
      [kind |-> "malformed", results |-> <<>>] }      \* json() rejects or has no results
    \cup { [kind |-> "ok", results |-> l] : l \in TagLists(Names, max) }

NoData == [kind |-> "none", results |-> <<>>]

-----------------------------------------------------------------------------
(* Array.prototype.sort with (a, b) => b.last_updated - a.last_updated:     *)
(* a stable sort, most recent first                                        *)

\* the comparator with its operands exchanged: oldest first
RECURSIVE InsertAsc(_, _)
InsertAsc(x, sorted) ==
    IF sorted = <<>> THEN <<x>>
    ELSE IF Head(sorted).last_updated <= x.last_updated
         THEN <<Head(sorted)>> \o InsertAsc(x, Tail(sorted))
         ELSE <<x>> \o sorted

RECURSIVE InsertDesc(_, _)
InsertDesc(x, sorted) ==
    IF sorted = <<>> THEN <<x>>
    ELSE IF Head(sorted).last_updated >= x.last_updated
         THEN <<Head(sorted)>> \o InsertDesc(x, Tail(sorted))
         ELSE <<x>> \o sorted

RECURSIVE SortByLastUpdatedDesc(_)
SortByLastUpdatedDesc(l) ==
    IF l = <<>> THEN <<>>
    ELSE InsertDesc(l[Len(l)], SortByLastUpdatedDesc(SubSeq(l, 1, Len(l) - 1)))

-----------------------------------------------------------------------------
(* fetchLatestBitnamiTag *)

\* getVars.ts:29
bitnamiRepo == "bitnami/postgresql"

\* the repository of the pg_search tags
paradedbRepo == "paradedb/paradedb"

tagPrefix(major) == major \o <<".">>

IsDebianTag(major, tag) ==
    startsWith(tag.name, tagPrefix(major)) /\ includes(tag.name, <<"-debian-">>)

debianTags(major, resp) ==
    SortByLastUpdatedDesc(SelectSeq(resp.results, LAMBDA tag : IsDebianTag(major, tag)))

\* the same fetch without the try block of getVars.ts:34-67: a rejected
\* fetch() and a payload that cannot be read reach the caller
fetchLatestBitnamiTag_NoTry(major, resp) ==
    CASE resp.kind = "http_error" ->
            [tag |-> Null, warn |-> <<"Failed to fetch tags from Docker Hub">>,
             error |-> <<>>, raised |-> FALSE]
      [] resp.kind \in {"network_error", "malformed"} ->
            [tag |-> Null, warn |-> <<>>, error |-> <<>>, raised |-> TRUE]
      [] OTHER ->
            IF Len(debianTags(major, resp)) > 0
            THEN [tag |-> debianTags(major, resp)[1].name, warn |-> <<>>,
                  error |-> <<>>, raised |-> FALSE]
            ELSE [tag |-> Null, warn |-> <<"No matching Debian tags found">>,
                  error |-> <<>>, raised |-> FALSE]

\* a fetch that reports an empty selection with the words of the failed
\* request
fetchLatestBitnamiTag_OneWarning(major, resp) ==
    CASE resp.kind = "http_error" ->
            [tag |-> Null, warn |-> <<"Failed to fetch tags from Docker Hub">>,
             error |-> <<>>, raised |-> FALSE]
      [] resp.kind \in {"network_error", "malformed"} ->
            [tag |-> Null, warn |-> <<>>,
             error |-> <<"Error fetching or parsing Docker Hub tags">>, raised |-> FALSE]
      [] OTHER ->
            IF Len(debianTags(major, resp)) > 0
            THEN [tag |-> debianTags(major, resp)[1].name, warn |-> <<>>,
                  error |-> <<>>, raised |-> FALSE]
            ELSE [tag |-> Null, warn |-> <<"Failed to fetch tags from Docker Hub">>,
                  error |-> <<>>, raised |-> FALSE]

\* getVars.ts:26-68: the tag (or null), what was logged, and whether an error
\* left the function
fetchLatestBitnamiTag(major, resp) ==
    CASE resp.kind = "http_error" ->
            [tag |-> Null, warn |-> <<"Failed to fetch tags from Docker Hub">>,
             error |-> <<>>, raised |-> FALSE]
      [] resp.kind \in {"network_error", "malformed"} ->
            [tag |-> Null, warn |-> <<>>,
             error |-> <<"Error fetching or parsing Docker Hub tags">>, raised |-> FALSE]
      [] OTHER ->
            IF Len(debianTags(major, resp)) > 0
            THEN [tag |-> debianTags(major, resp)[1].name, warn |-> <<>>,
                  error |-> <<>>, raised |-> FALSE]
            ELSE [tag |-> Null, warn |-> <<"No matching Debian tags found">>,
                  error |-> <<>>, raised |-> FALSE]

-----------------------------------------------------------------------------
(* Selection of the pg_search (ParadeDB) tag: stable, then latest-pgN, then  *)
(* nothing                                                                 *)

tagSuffix(major) == <<"-pg">> \o major

IsStableTag(major, tag) ==
    \E v \in NumericVersions : tag.name = v \o tagSuffix(major)

stableTags(major, resp) ==
    SortByLastUpdatedDesc(SelectSeq(resp.results, LAMBDA tag : IsStableTag(major, tag)))

latestAlias(major) == <<"latest">> \o tagSuffix(major)

HasLatestAlias(major, resp) ==
    \E i \in 1..Len(resp.results) : resp.results[i].name = latestAlias(major)

\* the selection with the alias tried before the stable tags
fetchLatestPgSearchTag_AliasFirst(major, resp) ==
    CASE resp.kind = "http_error" ->
            [tag |-> Null, warn |-> <<"Failed to fetch ParadeDB tags from Docker Hub">>, error |-> <<>>]
      [] resp.kind \in {"network_error", "malformed"} ->
            [tag |-> Null, warn |-> <<>>, error |-> <<"Error fetching or parsing ParadeDB tags">>]
      [] OTHER ->
            IF HasLatestAlias(major, resp)
            THEN [tag |-> latestAlias(major), warn |-> <<>>, error |-> <<>>]
            ELSE IF Len(stableTags(major, resp)) > 0
            THEN [tag |-> stableTags(major, resp)[1].name, warn |-> <<>>, error |-> <<>>]
            ELSE [tag |-> Null,
                  warn |-> <<"No stable versioned or 'latest' ParadeDB tags found">>,
                  error |-> <<>>]

\* the selection with the most recent tag of the suffix taken when no stable
\* tag exists
fetchLatestPgSearchTag_AnyRecent(major, resp) ==
    CASE resp.kind = "http_error" ->
            [tag |-> Null, warn |-> <<"Failed to fetch ParadeDB tags from Docker Hub">>, error |-> <<>>]
      [] resp.kind \in {"network_error", "malformed"} ->
            [tag |-> Null, warn |-> <<>>, error |-> <<"Error fetching or parsing ParadeDB tags">>]
      [] OTHER ->
            IF Len(stableTags(major, resp)) > 0
            THEN [tag |-> stableTags(major, resp)[1].name, warn |-> <<>>, error |-> <<>>]
            ELSE IF Len(SelectSeq(resp.results, LAMBDA tag : endsWith(tag.name, tagSuffix(major)))) > 0
            THEN [tag |-> SortByLastUpdatedDesc(SelectSeq(resp.results,
                              LAMBDA tag : endsWith(tag.name, tagSuffix(major))))[1].name,
                  warn |-> <<>>, error |-> <<>>]
            ELSE [tag |-> Null,
                  warn |-> <<"No stable versioned or 'latest' ParadeDB tags found">>,
                  error |-> <<>>]

fetchLatestPgSearchTag(major, resp) ==
    CASE resp.kind = "http_error" ->
            [tag |-> Null, warn |-> <<"Failed to fetch ParadeDB tags from Docker Hub">>, error |-> <<>>]
      [] resp.kind \in {"network_error", "malformed"} ->
            [tag |-> Null, warn |-> <<>>, error |-> <<"Error fetching or parsing ParadeDB tags">>]
      [] OTHER ->
            IF Len(stableTags(major, resp)) > 0
            THEN [tag |-> stableTags(major, resp)[1].name, warn |-> <<>>, error |-> <<>>]
            ELSE IF HasLatestAlias(major, resp)
            THEN [tag |-> latestAlias(major), warn |-> <<>>, error |-> <<>>]
            ELSE [tag |-> Null,
                  warn |-> <<"No stable versioned or 'latest' ParadeDB tags found">>,
                  error |-> <<>>]

\* the default without the major-version suffix
defaultPgSearchTag_NoSuffix(major) == DEFAULT_PG_SEARCH_VERSION

defaultPgSearchTag(major) == DEFAULT_PG_SEARCH_VERSION \o tagSuffix(major)

-----------------------------------------------------------------------------
(* Tags of the image *)

registryOf(e) == Nullish(e["REGISTRY"], DEFAULT_REGISTRY)

\* a reference that leaves the registry host out
imageRef_NoRegistry(reg, repo, tag) == repo \o <<":">> \o tag

imageRef(reg, repo, tag) == reg \o <<"/">> \o repo \o <<":">> \o tag

\* a full label that leaves the base component tag out
fullImageTag_NoBase(reg, repo, pgvector, major, bitnami) ==
    imageRef(reg, repo, pgvector \o <<"-pg">> \o major)

fullImageTag(reg, repo, pgvector, major, bitnami) ==
    imageRef(reg, repo, pgvector \o <<"-pg">> \o major \o <<"-">> \o bitnami)

\* a short label that carries a mark once a build has been made
tagShort_WithBuildMark(reg, repo, pgvector, major) ==
    imageRef(reg, repo, pgvector \o <<"-pg">> \o major
                        \o (IF buildCalls > 0 THEN <<"-rebuild">> ELSE <<>>))

tagShort(reg, repo, pgvector, major) ==
    imageRef(reg, repo, pgvector \o <<"-pg">> \o major)

tagFullPgvectorPostgres(reg, repo, pgvector, major) ==
    imageRef(reg, repo, pgvector \o <<"-postgres">> \o major)

\* the tag of the image extension A is copied from: {pgvector}-pg{major}
pgvectorBuilderTag(pgvector, major) == pgvector \o <<"-pg">> \o major

tagLatestPg(reg, repo, major) ==
    imageRef(reg, repo, <<"latest", "-pg">> \o major)

\* the canonical version string: the three semantic fields in fixed order
\* between fixed delimiters
canonicalVersionString(major, pgvector, pgsearch) ==
    <<"pg:">> \o major \o <<"-pgvector:">> \o pgvector \o <<"-pgsearch:">> \o pgsearch

\* width of the digest
SHA256_BITS == 256

\* SHA-256, hex-encoded.  The digest is kept symbolic: equal inputs give
\* equal digests and distinct inputs distinct ones.
sha256Hex(s) == <<"sha256(">> \o s \o <<")">>

\* number of characters of a hex-encoded digest: one for every four bits
hexLength(digest) == IF digest # <<>> /\ Head(digest) = "sha256(" THEN SHA256_BITS \div 4 ELSE 0

versionHash(major, pgvector, pgsearch) ==
    sha256Hex(canonicalVersionString(major, pgvector, pgsearch))

versionsHashTag(reg, repo, major, pgvector, pgsearch) ==
    imageRef(reg, repo, <<"sha-">> \o versionHash(major, pgvector, pgsearch))

\* a fingerprint that also takes in the base component tag
fingerprint_WithBase(v) ==
    versionHash(v.pgMajorVersion, v.pgvectorName \o <<"-">> \o v.bitnamiName, v.pgSearchName)

\* a fingerprint whose canonical string leaves extension B out
fingerprint_NoExtB(v) == versionHash(v.pgMajorVersion, v.pgvectorName, <<>>)

\* fingerprint(ResolvedVersionSet)
fingerprint(v) == versionHash(v.pgMajorVersion, v.pgvectorName, v.pgSearchName)

\* compose(ResolvedVersionSet, registryNamespace): the labels of one resolved
\* version set under the namespace reg/repo
compose(v, reg, repo) ==
    [tagShort |-> tagShort(reg, repo, v.pgvectorName, v.pgMajorVersion),
     fullImageTag |-> fullImageTag(reg, repo, v.pgvectorName, v.pgMajorVersion, v.bitnamiName),
     tagLatestPg |-> tagLatestPg(reg, repo, v.pgMajorVersion),
     versionHash |-> fingerprint(v),
     versionsHashTag |-> imageRef(reg, repo, <<"sha-">> \o fingerprint(v))]

NoVars == [returned |-> FALSE]

\* docker buildx build has not been invoked
NoCommand == [invoked |-> FALSE]

-----------------------------------------------------------------------------
(* Inputs of a run *)

EnvNames == {"PG_MAJOR_VERSION", "PGVECTOR_VERSION", "REGISTRY", "REPO_NAME", "GITHUB_OUTPUT"}

\* values of the pgMajorVersionInput argument and of PG_MAJOR_VERSION
ArgValues == {Undefined, Empty, M17}
EnvMajorValues == {Undefined, Empty, M16}

Environments ==
    { e \in [EnvNames -> {Undefined, Empty, M16, <<"0.7.0">>, <<"docker.io">>,
                          <<"my-custom-repo">>, <<"/tmp/github_output">>}] :
        /\ e["PG_MAJOR_VERSION"] \in EnvMajorValues
        /\ e["PGVECTOR_VERSION"] \in {Undefined, Empty, <<"0.7.0">>}
        /\ e["REGISTRY"] \in {Undefined, <<"docker.io">>}
        /\ e["REPO_NAME"] \in {Undefined, <<"my-custom-repo">>}
        /\ e["GITHUB_OUTPUT"] \in {Undefined, <<"/tmp/github_output">>} }

\* `git rev-parse --show-toplevel`, as path segments
GitTopLevel == <<"/Users/akira/Projects", "/", "bitnami-pgvector">>

\* repoRoot.split("/").pop()
lastSegment(path) == IF path = <<>> THEN Empty ELSE <<path[Len(path)]>>

\* the state of one run before it starts
InitRun ==
    /\ caller \in {"main", "import", "runBuild"}
    /\ arg \in ArgValues
    /\ caller = "main" => arg = Undefined
    /\ caller = "runBuild" => arg # Undefined
    /\ push \in BOOLEAN
    /\ caller # "runBuild" => push = FALSE
    /\ env \in Environments
    /\ pc = IF caller = "runBuild" THEN "runBuild" ELSE "entry"
    /\ pgMajorVersion = Undefined
    /\ data = NoData
    /\ bitnamiName = Undefined
    /\ pgvectorName = Undefined
    /\ pgSearchName = Undefined
    /\ repoName = Undefined
    /\ imageVars = NoVars
    /\ checkedTag = Undefined
    /\ registry = {}
    /\ warnings = <<>>
    /\ errors = <<>>
    /\ exitCode = -1
    /\ thrown = ""
    /\ buildCalls = 0
    /\ completed = FALSE
    /\ inspectExit = "none"
    /\ requests = {}
    /\ firstVars = NoVars
    /\ command = NoCommand

\* no listing is fixed beforehand: each fetch receives whatever the registry
\* answers then
NoUpstream == [bitnami |-> NoData, paradedb |-> NoData]

\* no pair of resolved version sets is being compared
NoPair == [composed |-> FALSE]

Init ==
    /\ InitRun
    /\ ToolsIdle
    /\ upstream = NoUpstream
    /\ cmp = NoPair

-----------------------------------------------------------------------------
(* getVars *)

\* the value the run works with: argument first, environment second
\* the message of getVars.ts:102-104
MissingMajorError ==
    "Error: PG_MAJOR_VERSION environment variable is not set and no argument provided."

resolveMajor(a, e) == Nullish(a, e["PG_MAJOR_VERSION"])

GetVarsEntry ==
    /\ pc = "entry"
    /\ IF Falsy(resolveMajor(arg, env))
       THEN /\ errors' = Append(errors, MissingMajorError)
            /\ exitCode' = 1
            /\ pc' = "exited"
            /\ UNCHANGED pgMajorVersion
       ELSE /\ pgMajorVersion' = resolveMajor(arg, env)
            /\ pc' = "bitnami"
            /\ UNCHANGED <<errors, exitCode>>
    /\ UNCHANGED toolVars
    /\ UNCHANGED <<inspectExit, requests, upstream, firstVars, cmp, command>>
    /\ UNCHANGED <<caller, arg, push, env, data, bitnamiName, pgvectorName, pgSearchName,
                   repoName, imageVars, checkedTag, registry, warnings, thrown,
                   buildCalls, completed>>

CouldNotDetermineBitnami == "Could not automatically determine the latest Bitnami tag"

\* the fallback that reports the missing tag twice
selectBitnamiName_WarnTwice(fetched) ==
    IF ~Falsy(fetched.tag)
    THEN [name |-> fetched.tag, warn |-> fetched.warn]
    ELSE [name |-> DEFAULT_BITNAMI_POSTGRES_VERSION,
          warn |-> fetched.warn \o <<CouldNotDetermineBitnami, CouldNotDetermineBitnami>>]

\* bitnamiName and the warnings of getVars.ts:108-118 for one fetch result
selectBitnamiName(fetched) ==
    IF ~Falsy(fetched.tag)
    THEN [name |-> fetched.tag, warn |-> fetched.warn]
    ELSE [name |-> DEFAULT_BITNAMI_POSTGRES_VERSION,
          warn |-> Append(fetched.warn, CouldNotDetermineBitnami)]

ResolveBitnamiFrom(responses) ==
    /\ pc = "bitnami"
    /\ requests' = requests \cup {bitnamiRepo}
    /\ \E resp \in responses :
         LET fetched == fetchLatestBitnamiTag(pgMajorVersion, resp)
             chosen == selectBitnamiName(fetched)
         IN /\ data' = resp
            /\ errors' = errors \o fetched.error
            /\ IF fetched.raised
               THEN /\ thrown' = "TypeError: fetch failed"
                    /\ pc' = "rejected"
                    /\ UNCHANGED <<bitnamiName, warnings>>
               ELSE /\ bitnamiName' = chosen.name
                    /\ warnings' = warnings \o chosen.warn
                    /\ pc' = "pgvector"
                    /\ UNCHANGED thrown
    /\ UNCHANGED toolVars
    /\ UNCHANGED <<inspectExit, upstream, firstVars, cmp, command>>
    /\ UNCHANGED <<caller, arg, push, env, pgMajorVersion, pgvectorName, pgSearchName,
                   repoName, imageVars, checkedTag, registry, exitCode,
                   buildCalls, completed>>

ResolveBitnami == ResolveBitnamiFrom(Responses(BitnamiNames, MaxTags))

\* a selection that never reads the override
selectPgvectorName_IgnoreEnv(e) == DEFAULT_PGVECTOR_VERSION

\* getVars.ts:120
selectPgvectorName(e) == Nullish(e["PGVECTOR_VERSION"], DEFAULT_PGVECTOR_VERSION)

ResolvePgvector ==
    /\ pc = "pgvector"
    /\ pgvectorName' = selectPgvectorName(env)
    /\ data' = NoData
    /\ pc' = "pgsearch"
    /\ UNCHANGED toolVars
    /\ UNCHANGED <<inspectExit, requests, upstream, firstVars, cmp, command>>
    /\ UNCHANGED <<caller, arg, push, env, pgMajorVersion, bitnamiName, pgSearchName,
                   repoName, imageVars, checkedTag, registry, warnings, errors, exitCode,
                   thrown, buildCalls, completed>>

CouldNotDeterminePgSearch == "Could not automatically determine the latest stable ParadeDB tag"

selectPgSearchName(major, fetched) ==
    IF ~Falsy(fetched.tag)
    THEN [name |-> fetched.tag, warn |-> fetched.warn]
    ELSE [name |-> defaultPgSearchTag(major),
          warn |-> Append(fetched.warn, CouldNotDeterminePgSearch)]

ResolvePgSearchFrom(responses) ==
    /\ pc = "pgsearch"
    /\ requests' = requests \cup {paradedbRepo}
    /\ \E resp \in responses :
         LET fetched == fetchLatestPgSearchTag(pgMajorVersion, resp)
             chosen == selectPgSearchName(pgMajorVersion, fetched)
         IN /\ data' = resp
            /\ pgSearchName' = chosen.name
            /\ warnings' = warnings \o chosen.warn
            /\ errors' = errors \o fetched.error
    /\ pc' = "repo"
    /\ UNCHANGED toolVars
    /\ UNCHANGED <<inspectExit, upstream, firstVars, cmp, command>>
    /\ UNCHANGED <<caller, arg, push, env, pgMajorVersion, bitnamiName, pgvectorName,
                   repoName, imageVars, checkedTag, registry, exitCode, thrown,
                   buildCalls, completed>>

ResolvePgSearch == ResolvePgSearchFrom(Responses(ParadeDBNames, MaxTags))

\* getVars.ts:124-126; the git command is awaited without nothrow(), so a
\* non-zero exit rejects getVars
ResolveRepo ==
    /\ pc = "repo"
    /\ data' = NoData
    /\ \E gitOk \in BOOLEAN :
         IF gitOk
         THEN /\ repoName' = Nullish(env["REPO_NAME"], lastSegment(GitTopLevel))
              /\ pc' = "check"
              /\ UNCHANGED thrown
         ELSE /\ thrown' = "ShellError: git rev-parse --show-toplevel"
              /\ pc' = "rejected"
              /\ UNCHANGED repoName
    /\ UNCHANGED toolVars
    /\ UNCHANGED <<inspectExit, requests, upstream, firstVars, cmp, command>>
    /\ UNCHANGED <<caller, arg, push, env, pgMajorVersion, bitnamiName, pgvectorName,
                   pgSearchName, imageVars, checkedTag, registry, warnings, errors,
                   exitCode, buildCalls, completed>>

\* a check that answers true whenever the command ran, whatever its exit
\* status
checkImageExists_AnyExit(outcome) == outcome \in {"exit0", "exit1", "unreachable"}

\* checkImageExists: exit status 0 of `docker manifest inspect` means the
\* image exists; any other status, and an error of the invocation, means it
\* does not
checkImageExists(outcome) == outcome = "exit0"

\* the label getVars hands to checkImageExists (getVars.ts:139)
tagToCheck(reg, repo, pgvector, major, bitnami, pgsearch) ==
    fullImageTag(reg, repo, pgvector, major, bitnami)

\* an inspection whose exit status does not follow the registry contents
InspectOutcomes_AnyStatus(reg, tag) == {"exit0", "exit1", "unreachable", "spawn_error"}

\* what `docker manifest inspect tag` can produce against registry contents reg
InspectOutcomes(reg, tag) ==
    (IF tag \in reg THEN {"exit0"} ELSE {"exit1"}) \cup {"unreachable", "spawn_error"}

\* getVars.ts:128-148
CheckImage ==
    /\ pc = "check"
    /\ LET reg  == registryOf(env)
           full == fullImageTag(reg, repoName, pgvectorName, pgMajorVersion, bitnamiName)
           hash == versionsHashTag(reg, repoName, pgMajorVersion, pgvectorName, pgSearchName)
           tag  == tagToCheck(reg, repoName, pgvectorName, pgMajorVersion, bitnamiName, pgSearchName)
       IN \E present \in SUBSET {full, hash} :
            \E outcome \in InspectOutcomes(registry \cup present, tag) :
               /\ registry' = registry \cup present
               /\ checkedTag' = tag
               /\ inspectExit' = outcome
               /\ errors' = IF outcome = "spawn_error"
                            THEN Append(errors, "Error checking image existence")
                            ELSE errors
               /\ imageVars' =
                    [returned |-> FALSE,
                     bitnamiName |-> bitnamiName,
                     pgvectorName |-> pgvectorName,
                     pgSearchName |-> pgSearchName,
                     fullImageTag |-> full,
                     tagShort |-> tagShort(reg, repoName, pgvectorName, pgMajorVersion),
                     tagFullPgvectorPostgres |->
                         tagFullPgvectorPostgres(reg, repoName, pgvectorName, pgMajorVersion),
                     tagLatestPg |-> tagLatestPg(reg, repoName, pgMajorVersion),
                     pgvectorBuilderTag |-> pgvectorBuilderTag(pgvectorName, pgMajorVersion),
                     versionsHashTag |-> hash,
                     imageExists |-> checkImageExists(outcome)]
    /\ pc' = "output"
    /\ UNCHANGED toolVars
    /\ UNCHANGED <<requests, upstream, firstVars, cmp, command>>
    /\ UNCHANGED <<caller, arg, push, env, pgMajorVersion, data, bitnamiName, pgvectorName,
                   pgSearchName, repoName, warnings, exitCode, thrown, buildCalls,
                   completed>>

\* getVars.ts:150-175; the writer is flushed without a try block, so a failed
\* write rejects getVars
WriteOutput ==
    /\ pc = "output"
    /\ \E writeOk \in BOOLEAN :
         IF Falsy(env["GITHUB_OUTPUT"]) \/ writeOk
         THEN /\ imageVars' = [imageVars EXCEPT !.returned = TRUE]
              /\ pc' = "returned"
              /\ UNCHANGED thrown
         ELSE /\ thrown' = "Error: write to GITHUB_OUTPUT failed"
              /\ pc' = "rejected"
              /\ UNCHANGED imageVars
    /\ UNCHANGED toolVars
    /\ UNCHANGED <<inspectExit, requests, upstream, firstVars, cmp, command>>
    /\ UNCHANGED <<caller, arg, push, env, pgMajorVersion, data, bitnamiName, pgvectorName,
                   pgSearchName, repoName, checkedTag, registry, warnings, errors,
                   exitCode, buildCalls, completed>>

\* getVars.ts:181-186 (run as a script) and build.ts:41-44 (called by runBuild)
CatchRejection ==
    /\ pc = "rejected"
    /\ caller \in {"main", "runBuild"}
    /\ errors' = Append(errors, IF caller = "main" THEN "Script failed" ELSE "Error getting variables")
    /\ exitCode' = 1
    /\ pc' = "exited"
    /\ UNCHANGED toolVars
    /\ UNCHANGED <<inspectExit, requests, upstream, firstVars, cmp, command>>
    /\ UNCHANGED <<caller, arg, push, env, pgMajorVersion, data, bitnamiName, pgvectorName,
                   pgSearchName, repoName, imageVars, checkedTag, registry, warnings,
                   thrown, buildCalls, completed>>

-----------------------------------------------------------------------------
(* runBuild *)

\* build.ts:19-35
RunBuildStart ==
    /\ pc = "runBuild"
    /\ pc' = "entry"
    /\ UNCHANGED toolVars
    /\ UNCHANGED <<inspectExit, requests, upstream, firstVars, cmp, command>>
    /\ UNCHANGED <<caller, arg, push, env, pgMajorVersion, data, bitnamiName, pgvectorName,
                   pgSearchName, repoName, imageVars, checkedTag, registry, warnings,
                   errors, exitCode, thrown, buildCalls, completed>>

\* a gate that skips whenever the image exists, whether or not a push was
\* requested
skipBuild_IgnorePush(imageExists, pushRequested) == imageExists

\* build.ts:46-54
skipBuild(imageExists, pushRequested) == imageExists /\ pushRequested

ExistenceGate ==
    /\ pc = "returned"
    /\ caller = "runBuild"
    /\ pc' = IF skipBuild(imageVars.imageExists, push) THEN "skipped" ELSE "create"
    /\ UNCHANGED toolVars
    /\ UNCHANGED <<inspectExit, requests, upstream, firstVars, cmp, command>>
    /\ UNCHANGED <<caller, arg, push, env, pgMajorVersion, data, bitnamiName, pgvectorName,
                   pgSearchName, repoName, imageVars, checkedTag, registry, warnings,
                   errors, exitCode, thrown, buildCalls, completed>>

\* build.ts:61-66; a failure of `docker buildx create` is ignored
BuildxCreate ==
    /\ pc = "create"
    /\ \E createOk \in BOOLEAN :
         warnings' = IF createOk THEN warnings
                     ELSE Append(warnings, "Ignoring error during buildx create")
    /\ pc' = "build"
    /\ UNCHANGED toolVars
    /\ UNCHANGED <<inspectExit, requests, upstream, firstVars, cmp, command>>
    /\ UNCHANGED <<caller, arg, push, env, pgMajorVersion, data, bitnamiName, pgvectorName,
                   pgSearchName, repoName, imageVars, checkedTag, registry, errors,
                   exitCode, thrown, buildCalls, completed>>

\* the --build-arg arguments of build.ts:95-100
buildArgsCmd(v, major) ==
    [BITNAMI_TAG |-> v.bitnamiName,
     PGVECTOR_BUILDER_TAG |-> v.pgvectorBuilderTag,
     PG_MAJOR_VERSION |-> major,
     PG_SEARCH_TAG |-> v.pgSearchName]

\* the --tag arguments of build.ts:101-105
buildTags(v) == {v.tagShort, v.tagLatestPg, v.versionsHashTag}

\* build.ts:122-134
BuildxBuild ==
    /\ pc = "build"
    /\ buildCalls' = buildCalls + 1
    /\ \E buildOk \in BOOLEAN :
         IF buildOk
         THEN /\ completed' = TRUE
              /\ registry' = IF push THEN registry \cup buildTags(imageVars) ELSE registry
              /\ pc' = "built"
              /\ UNCHANGED thrown
         ELSE /\ thrown' = "ShellError: docker buildx build"
              /\ pc' = "failed"
              /\ UNCHANGED <<completed, registry>>
    /\ command' = [invoked |-> TRUE,
                   buildArgs |-> buildArgsCmd(imageVars, arg),
                   tags |-> buildTags(imageVars),
                   push |-> push]
    /\ UNCHANGED toolVars
    /\ UNCHANGED <<inspectExit, requests, upstream, firstVars, cmp>>
    /\ UNCHANGED <<caller, arg, push, env, pgMajorVersion, data, bitnamiName, pgvectorName,
                   pgSearchName, repoName, imageVars, checkedTag, warnings, errors,
                   exitCode>>

-----------------------------------------------------------------------------

Next ==
    \/ GetVarsEntry
    \/ ResolveBitnami
    \/ ResolvePgvector
    \/ ResolvePgSearch
    \/ ResolveRepo
    \/ CheckImage
    \/ WriteOutput
    \/ CatchRejection
    \/ RunBuildStart
    \/ ExistenceGate
    \/ BuildxCreate
    \/ BuildxBuild

Spec == Init /\ [][Next]_vars

-----------------------------------------------------------------------------
(* The two tag selections studied alone: runs of getVars without overrides,  *)
(* followed up to the point where both tags are chosen, over longer tag    *)
(* lists                                                                   *)

NoOverrides == [n \in EnvNames |-> Undefined]

SelInit ==
    /\ Init
    /\ caller = "import"
    /\ \/ arg = M17 /\ env = NoOverrides
       \/ arg = Undefined /\ env = [NoOverrides EXCEPT !["PG_MAJOR_VERSION"] = M16]

SelectBitnami == ResolveBitnamiFrom(Responses(BitnamiNames, MaxListLen))

SelectPgSearch == ResolvePgSearchFrom(Responses(ParadeDBNames, MaxListLen))

SelNext ==
    \/ GetVarsEntry
    \/ SelectBitnami
    \/ ResolvePgvector
    \/ SelectPgSearch

SelSpec == SelInit /\ [][SelNext]_vars

-----------------------------------------------------------------------------
(* A run followed by a second run of the same caller with the same argument *)
(* and environment, against tag listings that do not change in between     *)

\* listings the upstream registry can hold while the two runs last
RerunBitnamiNames ==
    { <<"17", ".", "1.0", "-debian-", "11-r5">>,
      <<"17", ".", "3.0", "-photon-", "5-r0">> }

RerunParadeDBNames ==
    { <<"0.15.18", "-pg", "17">>,
      <<"0.15.19", "-rc.0", "-pg", "17">>,
      <<"latest", "-pg", "17">> }

RerunInit ==
    /\ InitRun
    /\ ToolsIdle
    /\ caller \in {"import", "runBuild"}
    /\ arg = M17
    /\ \A n \in EnvNames \ {"PGVECTOR_VERSION"} : env[n] = Undefined
    /\ env["PGVECTOR_VERSION"] \in {Undefined, <<"0.7.0">>}
    /\ upstream \in [bitnami : Responses(RerunBitnamiNames, MaxTags),
                     paradedb : Responses(RerunParadeDBNames, MaxTags)]
    /\ cmp = NoPair

\* each fetch receives the listing the registry holds
FetchBitnami == ResolveBitnamiFrom({upstream.bitnami})

FetchPgSearch == ResolvePgSearchFrom({upstream.paradedb})

\* the caller runs getVars, or runBuild, once more: the nightly schedule of
\* the workflow, or the same command typed again.  The target registry keeps
\* what was pushed to it.
Rerun ==
    /\ firstVars = NoVars
    /\ \/ pc = "built"
       \/ pc = "returned" /\ caller # "runBuild"
    /\ firstVars' = imageVars
    /\ pc' = IF caller = "runBuild" THEN "runBuild" ELSE "entry"
    /\ pgMajorVersion' = Undefined
    /\ data' = NoData
    /\ bitnamiName' = Undefined
    /\ pgvectorName' = Undefined
    /\ pgSearchName' = Undefined
    /\ repoName' = Undefined
    /\ imageVars' = NoVars
    /\ checkedTag' = Undefined
    /\ inspectExit' = "none"
    /\ requests' = {}
    /\ warnings' = <<>>
    /\ errors' = <<>>
    /\ completed' = FALSE
    /\ command' = NoCommand
    /\ UNCHANGED toolVars
    /\ UNCHANGED <<caller, arg, push, env, registry, exitCode, thrown, buildCalls,
                   upstream, cmp>>

RerunNext ==
    \/ GetVarsEntry
    \/ FetchBitnami
    \/ ResolvePgvector
    \/ FetchPgSearch
    \/ ResolveRepo
    \/ CheckImage
    \/ WriteOutput
    \/ CatchRejection
    \/ RunBuildStart
    \/ ExistenceGate
    \/ BuildxCreate
    \/ BuildxBuild
    \/ Rerun

RerunSpec == RerunInit /\ [][RerunNext]_vars

-----------------------------------------------------------------------------
(* Vocabulary of the properties *)

-----------------------------------------------------------------------------
(* Two resolved version sets composed side by side under one namespace      *)

\* resolved version sets, each with the last-modified time of the tag record
\* its base tag came from
ResolvedVersionSets ==
    [pgMajorVersion : {M16, M17},
     bitnamiName : {DEFAULT_BITNAMI_POSTGRES_VERSION, <<"17", ".", "1.0", "-debian-", "11-r5">>},
     pgvectorName : {DEFAULT_PGVECTOR_VERSION, <<"0.7.0">>},
     pgSearchName : {<<"0.15.18", "-pg", "17">>, <<"latest", "-pg", "17">>},
     lastModified : Times]

ComposeInit ==
    /\ InitRun
    /\ ToolsIdle
    /\ caller = "import"
    /\ arg = M17
    /\ env = NoOverrides
    /\ upstream = NoUpstream
    /\ cmp \in [composed : {FALSE},
                a : ResolvedVersionSets,
                b : ResolvedVersionSets,
                registry : {DEFAULT_REGISTRY, <<"docker.io">>},
                repoName : {<<"bitnami-pgvector">>}]

ComposeBoth ==
    /\ cmp # NoPair
    /\ ~cmp.composed
    /\ cmp' = [composed |-> TRUE,
               a |-> cmp.a,
               b |-> cmp.b,
               registry |-> cmp.registry,
               repoName |-> cmp.repoName,
               la |-> compose(cmp.a, cmp.registry, cmp.repoName),
               lb |-> compose(cmp.b, cmp.registry, cmp.repoName)]
    /\ UNCHANGED toolVars
    /\ UNCHANGED <<caller, arg, push, env, pc, pgMajorVersion, data, bitnamiName,
                   pgvectorName, pgSearchName, repoName, imageVars, checkedTag, registry,
                   warnings, errors, exitCode, thrown, buildCalls, completed,
                   inspectExit, requests, upstream, firstVars, command>>

ComposeNext == ComposeBoth

ComposeSpec == ComposeInit /\ [][ComposeNext]_vars

Count(seq, x) == Cardinality({ i \in 1..Len(seq) : seq[i] = x })

Logged(seq, x) == Count(seq, x) > 0

\* the run has neither left the process nor raised
Running == exitCode = -1 /\ thrown = "" /\ pc \notin {"exited", "rejected"}

\* the tag listing was not obtained
Unavailable(resp) == resp.kind \in {"network_error", "http_error", "malformed"}

StableIdx(major, resp) == { i \in 1..Len(resp.results) : IsStableTag(major, resp.results[i]) }

IsPreRelease(name) == includes(name, <<"-rc.0">>) \/ includes(name, <<"-rc.1">>)

\* the pg_search tag has just been chosen from the response in data
PgSearchChosen == pc = "repo" /\ data # NoData

\* the Bitnami tag has just been chosen from the response in data
BitnamiChosen == pc = "pgvector" /\ data # NoData

SurvivorIdx(major, resp) == { i \in 1..Len(resp.results) : IsDebianTag(major, resp.results[i]) }

\* the reorderings of a list of n records
Orderings(n) == Permutations(1..n)

Permuted(resp, f) == [resp EXCEPT !.results = [i \in 1..Len(resp.results) |-> resp.results[f[i]]]]

-----------------------------------------------------------------------------
(* Extension policy *)

-----------------------------------------------------------------------------
(* Base-component policy *)

SelectedIsMostRecent ==
    \E i \in SurvivorIdx(pgMajorVersion, data) :
        /\ bitnamiName = data.results[i].name
        /\ \A j \in SurvivorIdx(pgMajorVersion, data) :
             data.results[i].last_updated >= data.results[j].last_updated

\* the selection is the same for every order of the records in the listing
OrderIndependent ==
    \A f \in Orderings(Len(data.results)) :
        fetchLatestBitnamiTag(pgMajorVersion, Permuted(data, f)).tag = bitnamiName

\* survivors holding the most recent last-modified time
LatestIdx(major, resp) ==
    { i \in SurvivorIdx(major, resp) :
        \A j \in SurvivorIdx(major, resp) :
            resp.results[i].last_updated >= resp.results[j].last_updated }

\* C7 as stated: with at least one survivor, the selected tag is a survivor at
\* least as recent as every other survivor, and the choice does not depend on
\* the order in which the registry returned the records.
C7_Original ==
    (BitnamiChosen /\ data.kind = "ok" /\ SurvivorIdx(pgMajorVersion, data) # {}) =>
        /\ SelectedIsMostRecent
        /\ OrderIndependent

\* C7 amended: with at least one survivor, the selected tag is a survivor at
\* least as recent as every other survivor; it is the first, in the order of
\* the listing, of the survivors holding the most recent time; and when one
\* survivor alone holds the most recent time the choice does not depend on
\* the order of the listing.
C7_MostRecentSurvivor ==
    (BitnamiChosen /\ data.kind = "ok" /\ SurvivorIdx(pgMajorVersion, data) # {}) =>
        /\ SelectedIsMostRecent
        /\ \E i \in LatestIdx(pgMajorVersion, data) :
             /\ bitnamiName = data.results[i].name
             /\ \A j \in LatestIdx(pgMajorVersion, data) : i <= j
        /\ Cardinality(LatestIdx(pgMajorVersion, data)) = 1 => OrderIndependent

\* the most recent survivor is chosen although it is neither the first record
\* of the listing nor the survivor with the greatest version
C7_Witness ==
    /\ BitnamiChosen
    /\ data.kind = "ok"
    /\ Len(data.results) >= 2
    /\ bitnamiName = <<"17", ".", "1.0", "-debian-", "11-r5">>
    /\ data.results[1].name = <<"17", ".", "2.0", "-debian-", "12-r1">>
    /\ Cardinality(LatestIdx(pgMajorVersion, data)) = 1

-----------------------------------------------------------------------------
(* Fatal path, aborts and the resolved set *)

\* a value that names a major version line
Supplied(x) == x \notin {Undefined, Null, Empty}

\* getVars has decided whether to leave the process for want of a major
\* version line
PastEntry == pc \notin {"runBuild", "entry"}

\* the process was terminated for want of a major version line
FatalMissingMajor == Logged(errors, MissingMajorError) /\ exitCode = 1

\* C4 as stated: getVars terminates the process with a non-zero status and an
\* error message exactly when neither the argument nor PG_MAJOR_VERSION
\* supplies the major version line; when either supplies it, the fatal path
\* is not taken.
C4_FatalIffMajorMissing ==
    PastEntry =>
        (FatalMissingMajor <=> (~Supplied(arg) /\ ~Supplied(env["PG_MAJOR_VERSION"])))

\* the resolution run was aborted: getVars rejected, or the process was left
Aborted == pc \in {"rejected", "exited"}

\* C5 as stated: the absence of the major version line is the only condition
\* that aborts a resolution run; after any other failure the run neither
\* terminates the process nor throws.
C5_OnlyMissingMajorAborts ==
    Aborted => (Logged(errors, MissingMajorError) /\ thrown = "")

NonEmpty(s) == s \notin {Undefined, Null, Empty}

\* C8 as stated: every field of the resolved version set a resolution run
\* returns (major version line, base tag, extension A version, extension B
\* tag) is a non-empty string, whatever the overrides and upstream outcomes.
C8_ResolvedSetNonEmpty ==
    imageVars.returned =>
        /\ NonEmpty(pgMajorVersion)
        /\ NonEmpty(imageVars.bitnamiName)
        /\ NonEmpty(imageVars.pgvectorName)
        /\ NonEmpty(imageVars.pgSearchName)

-----------------------------------------------------------------------------
(* Existence gate *)

\* runBuild is past the gate of build.ts:46-54
PastGate == pc \in {"skipped", "create", "build", "built", "failed"}

\* C9: runBuild invokes `docker buildx build` if and only if it is not the
\* case that the image exists and a push was requested.  When both hold it
\* returns without a build, without a push and without reporting completion;
\* otherwise the build is invoked exactly once.
C9_BuildIffNotSkipped ==
    /\ buildCalls <= 1
    /\ PastGate => ((pc = "skipped") <=> (imageVars.imageExists /\ push))
    /\ pc = "skipped" =>
         /\ buildCalls = 0
         /\ ~completed
         /\ exitCode = -1
         /\ thrown = ""
    /\ pc \in {"create", "build"} =>
         /\ buildCalls = 0
         /\ ENABLED (BuildxCreate \/ BuildxBuild)
    /\ pc \in {"built", "failed"} => buildCalls = 1
    /\ buildCalls = 1 => pc \in {"built", "failed"}
    /\ completed => pc = "built"

\* the image exists and a push was requested: runBuild has returned without
\* a build
C9_Witness ==
    /\ pc = "skipped"
    /\ imageVars.imageExists
    /\ push
    /\ buildCalls = 0
    /\ ~completed

\* C10 as stated: imageExists is the result of the registry check applied to
\* the content-hash label {registry}/{repo}:sha-{fingerprint} of the run's
\* resolved versions, and to no other label.
C10_ChecksHashLabel ==
    checkedTag # Undefined =>
        /\ checkedTag = imageVars.versionsHashTag
        /\ imageVars.imageExists => imageVars.versionsHashTag \in registry

-----------------------------------------------------------------------------
(* Registry existence check *)

\* C11: checkImageExists returns true exactly when `docker manifest inspect`
\* exits with status 0; for any other exit status, and for an error raised
\* while invoking the command, it returns false, and no error reaches the
\* caller.
C11_ExistsIffExitZero ==
    inspectExit # "none" =>
        /\ imageVars.imageExists <=> (inspectExit = "exit0")
        /\ pc = "output" => (thrown = "" /\ exitCode = -1)
        /\ inspectExit = "exit0" => checkedTag \in registry

\* the command could not be invoked: the check answered false and getVars
\* went on to write its output
C11_Witness ==
    /\ pc = "output"
    /\ inspectExit = "spawn_error"
    /\ ~imageVars.imageExists
    /\ Logged(errors, "Error checking image existence")
    /\ thrown = ""

-----------------------------------------------------------------------------
(* Idempotence of the existence gate *)

\* this is the second run, and the first was a build that was pushed
AfterPushedBuild == firstVars # NoVars /\ caller = "runBuild" /\ push

\* the registry answered the inspection of this run
RegistryAnswered == inspectExit \in {"exit0", "exit1"}

\* C12 as stated: after a build for a resolved version set has completed and
\* been pushed, a later run for the same major line against unchanged
\* upstream tags reports imageExists = true whenever the registry answers,
\* and the pushed build is not repeated.
C12_PushedBuildNotRepeated ==
    (AfterPushedBuild /\ RegistryAnswered) =>
        /\ imageVars.imageExists
        /\ buildCalls <= 1

-----------------------------------------------------------------------------
(* Fingerprint *)

\* the two sets agree on the three semantic fields
SameSemanticFields(a, b) ==
    /\ a.pgMajorVersion = b.pgMajorVersion
    /\ a.pgvectorName = b.pgvectorName
    /\ a.pgSearchName = b.pgSearchName

\* the semantic fields on which the two sets differ
DifferingSemanticFields(a, b) ==
    { f \in {"pgMajorVersion", "pgvectorName", "pgSearchName"} : a[f] # b[f] }

\* C13: the Fingerprint is a function of exactly the major version line, the
\* extension A version and the extension B tag: two resolved version sets
\* that agree on the three have the same Fingerprint, whatever their base
\* component tags and the timestamps of their tags.
C13_FingerprintOfThreeFields ==
    (cmp.composed /\ SameSemanticFields(cmp.a, cmp.b)) =>
        /\ cmp.la.versionHash = cmp.lb.versionHash
        /\ cmp.la.versionsHashTag = cmp.lb.versionsHashTag

\* two sets with different base tags and timestamps, and one Fingerprint
C13_Witness ==
    /\ cmp.composed
    /\ SameSemanticFields(cmp.a, cmp.b)
    /\ cmp.a.bitnamiName # cmp.b.bitnamiName
    /\ cmp.a.lastModified # cmp.b.lastModified
    /\ cmp.la.versionHash = cmp.lb.versionHash

\* C14: changing one of the three semantic fields of a resolved version set,
\* the other two held fixed, changes the Fingerprint: no field is left out
\* of the canonical string.
C14_FingerprintSensitive ==
    (cmp.composed /\ Cardinality(DifferingSemanticFields(cmp.a, cmp.b)) = 1) =>
        cmp.la.versionHash # cmp.lb.versionHash

\* two sets that differ in the extension B tag alone, with two Fingerprints
C14_Witness ==
    /\ cmp.composed
    /\ DifferingSemanticFields(cmp.a, cmp.b) = {"pgSearchName"}
    /\ cmp.a.bitnamiName = cmp.b.bitnamiName
    /\ cmp.la.versionHash # cmp.lb.versionHash

-----------------------------------------------------------------------------
(* Determinism *)

\* the fields of ImageVars that make the resolved version set, the label set
\* and the Fingerprint
ResolvedFields ==
    {"bitnamiName", "pgvectorName", "pgSearchName", "fullImageTag", "tagShort",
     "tagFullPgvectorPostgres", "tagLatestPg", "versionsHashTag"}

\* the second run has assembled its ImageVars
SecondRunResolved == firstVars # NoVars /\ imageVars # NoVars

-----------------------------------------------------------------------------
(* Label composition *)

\* the identifiers on which the two sets differ
DifferingIdentifiers(a, b) ==
    { f \in {"pgMajorVersion", "bitnamiName", "pgvectorName", "pgSearchName"} : a[f] # b[f] }

\* C16 as stated: under one registry namespace, two resolved version sets
\* that differ in any component identifier never yield the same
\* fully-qualified label.
C16_Original ==
    (cmp.composed /\ DifferingIdentifiers(cmp.a, cmp.b) # {}) =>
        cmp.la.fullImageTag # cmp.lb.fullImageTag

\* C16 amended: the fully-qualified label is made of the extension A
\* version, the major version line and the base component tag.  Two resolved
\* version sets that differ in one of these never yield the same
\* fully-qualified label; two sets that differ in the extension B tag alone
\* yield the same one.
C16_FullLabelInjective ==
    cmp.composed =>
        ((cmp.la.fullImageTag = cmp.lb.fullImageTag)
            <=> (DifferingIdentifiers(cmp.a, cmp.b) \subseteq {"pgSearchName"}))

\* two sets that differ in the base component tag alone, with one short
\* label and two fully-qualified labels
C16_Witness ==
    /\ cmp.composed
    /\ DifferingIdentifiers(cmp.a, cmp.b) = {"bitnamiName"}
    /\ cmp.la.tagShort = cmp.lb.tagShort
    /\ cmp.la.fullImageTag # cmp.lb.fullImageTag

\* the prefix {registryNamespace}: of the run
Namespace == registryOf(env) \o <<"/">> \o repoName \o <<":">>

\* what follows the prefix p in the label l
AfterPrefix(l, p) == SubSeq(l, Len(p) + 1, Len(l))

-----------------------------------------------------------------------------
(* What the build executor receives *)

\* the labels of the run's LabelSet
LabelSet(v) == {v.tagShort, v.fullImageTag, v.tagLatestPg, v.versionsHashTag}

\* C18 as stated: whenever `docker buildx build` is invoked it receives the
\* base component identifier, both extension identifiers, the major version
\* line, and every label of the LabelSet (short, fully-qualified, major-line
\* alias and content-hash) as the labels to apply.
C18_ExecutorReceivesAll ==
    command.invoked =>
        /\ command.buildArgs.BITNAMI_TAG = bitnamiName
        /\ startsWith(command.buildArgs.PGVECTOR_BUILDER_TAG, pgvectorName)
        /\ command.buildArgs.PG_SEARCH_TAG = pgSearchName
        /\ command.buildArgs.PG_MAJOR_VERSION = pgMajorVersion
        /\ LabelSet(imageVars) \subseteq command.tags

-----------------------------------------------------------------------------
(* Overrides *)

\* the repository extension A is published in
pgvectorRepo == "pgvector/pgvector"

\* C19: when the environment carries an override for a field of the resolved
\* version set (PGVECTOR_VERSION, for the extension A version), the resolved
\* value of the field is the override verbatim and no tag listing is
\* requested for that field's upstream component.
C19_OverrideVerbatim ==
    (Supplied(env["PGVECTOR_VERSION"]) /\ pgvectorName # Undefined) =>
        /\ pgvectorName = env["PGVECTOR_VERSION"]
        /\ imageVars # NoVars => imageVars.pgvectorName = env["PGVECTOR_VERSION"]
        /\ pgvectorRepo \notin requests
        /\ requests \subseteq {bitnamiRepo, paradedbRepo}

\* a run with PGVECTOR_VERSION=0.7.0 has returned: extension A is 0.7.0 and
\* the only listings requested were those of the other two components
C19_Witness ==
    /\ imageVars # NoVars
    /\ imageVars.returned
    /\ env["PGVECTOR_VERSION"] = <<"0.7.0">>
    /\ imageVars.pgvectorName = <<"0.7.0">>
    /\ requests = {bitnamiRepo, paradedbRepo}

-----------------------------------------------------------------------------
(* Tag fetch *)

\* the Bitnami listing has just been asked for, and was not obtained
BitnamiFetchFailed == requests = {bitnamiRepo} /\ data # NoData /\ Unavailable(data)

\* C20: a tag fetch never raises to its caller: a non-success HTTP status, a
\* network error and a malformed payload each yield no tag, after which the
\* caller proceeds on its fallback path.
C20_FetchNeverRaises ==
    BitnamiFetchFailed =>
        /\ fetchLatestBitnamiTag(pgMajorVersion, data).tag = Null
        /\ ~fetchLatestBitnamiTag(pgMajorVersion, data).raised
        /\ pc = "pgvector"
        /\ thrown = ""
        /\ exitCode = -1
        /\ bitnamiName = DEFAULT_BITNAMI_POSTGRES_VERSION

\* the payload could not be read: the error was logged inside the fetch and
\* getVars went on with the default base tag
C20_Witness ==
    /\ BitnamiFetchFailed
    /\ data.kind = "malformed"
    /\ pc = "pgvector"
    /\ Logged(errors, "Error fetching or parsing Docker Hub tags")
    /\ bitnamiName = DEFAULT_BITNAMI_POSTGRES_VERSION
    /\ thrown = ""

-----------------------------------------------------------------------------
(* A resolution run against upstream services that may never answer *)

\* the service accepted the request and never answers it
NoResponse == [kind |-> "no_response", results |-> <<>>]

\* getVars.ts:38 awaits fetch(url) with no signal and no timeout option, and
\* getVars.ts:74-76 awaits the inspect command likewise: the continuation
\* runs only for a request that settled
Settled(responses) == { r \in responses : r.kind # "no_response" }

AwaitInit ==
    /\ InitRun
    /\ ToolsIdle
    /\ caller \in {"main", "import"}
    /\ caller = "import" => arg = M17 /\ env["PG_MAJOR_VERSION"] = Undefined
    /\ caller = "main" => env["PG_MAJOR_VERSION"] = M16
    /\ \A n \in EnvNames \ {"PG_MAJOR_VERSION"} : env[n] = Undefined
    /\ upstream \in [bitnami : Responses(RerunBitnamiNames, MaxTags) \cup {NoResponse},
                     paradedb : Responses(RerunParadeDBNames, MaxTags) \cup {NoResponse},
                     inspect : {"answers", "no_response"}]
    /\ cmp = NoPair

\* getVars.ts:38, `await fetch(url)`
AwaitBitnami == ResolveBitnamiFrom(Settled({upstream.bitnami}))

AwaitPgSearch == ResolvePgSearchFrom(Settled({upstream.paradedb}))

\* getVars.ts:74-76, `await $`docker manifest inspect ...`.quiet().nothrow()`
AwaitInspect == upstream.inspect = "answers" /\ CheckImage

AwaitNext ==
    \/ GetVarsEntry
    \/ AwaitBitnami
    \/ ResolvePgvector
    \/ AwaitPgSearch
    \/ ResolveRepo
    \/ AwaitInspect
    \/ WriteOutput
    \/ CatchRejection

\* the event loop runs every continuation whose promise has settled
AwaitSpec == AwaitInit /\ [][AwaitNext]_vars /\ WF_vars(AwaitNext)

\* getVars has returned, rejected or left the process
ResolutionEnded == pc \in {"returned", "rejected", "exited"}

\* C21 as stated: no resolution run blocks indefinitely: every tag fetch and
\* the registry existence check are bounded by a timeout, an elapsed timeout
\* is treated like Unavailable, so the run takes the fallback path and
\* terminates even if an upstream service never responds.
C21_RunTerminates ==
    /\ <>ResolutionEnded
    /\ (pc = "bitnami" /\ upstream.bitnami = NoResponse)
          ~> (bitnamiName = DEFAULT_BITNAMI_POSTGRES_VERSION)

-----------------------------------------------------------------------------
(* Messages of the recoverable paths *)

\* the Bitnami listing has just been asked for and the fetch has returned
BitnamiFetched == requests = {bitnamiRepo} /\ data # NoData /\ pc = "pgvector"

\* the path the fetch of getVars.ts:34-67 took
RecoverablePath(major, resp) ==
    CASE resp.kind = "http_error" -> "status"
      [] resp.kind \in {"network_error", "malformed"} -> "error"
      [] resp.kind = "ok" /\ Len(debianTags(major, resp)) = 0 -> "empty"
      [] OTHER -> "found"

\* the path as an operator reads it from the console.warn messages
PathOfWarnings(w) ==
    CASE Logged(w, "Failed to fetch tags from Docker Hub") -> "status"
      [] Logged(w, "No matching Debian tags found") -> "empty"
      [] Logged(w, CouldNotDetermineBitnami) -> "error"
      [] OTHER -> "found"

\* C22: each recoverable path of a resolution run (non-success status; error
\* raised or malformed payload; no tag matched) emits a message that no other
\* recoverable path emits, and the path taken, in particular an empty result
\* versus Unavailable, can be told from the warnings alone.
C22_PathsDistinguishable ==
    BitnamiFetched =>
        LET path == RecoverablePath(pgMajorVersion, data)
        IN /\ Logged(warnings, "Failed to fetch tags from Docker Hub") <=> path = "status"
           /\ Logged(errors, "Error fetching or parsing Docker Hub tags") <=> path = "error"
           /\ Logged(warnings, "No matching Debian tags found") <=> path = "empty"
           /\ Logged(warnings, CouldNotDetermineBitnami) <=> path # "found"
           /\ PathOfWarnings(warnings) = path
           /\ path = "empty" => ~Unavailable(data)

\* the listing was obtained and holds a tag, none of which matches: the
\* warning is that of the empty selection, not that of a failed request
C22_Witness ==
    /\ BitnamiFetched
    /\ data.kind = "ok"
    /\ Len(data.results) > 0
    /\ RecoverablePath(pgMajorVersion, data) = "empty"
    /\ warnings = <<"No matching Debian tags found", CouldNotDetermineBitnami>>
    /\ errors = <<>>

-----------------------------------------------------------------------------
(* The existence check called repeatedly with one label *)

\* getVars and runBuild at rest
RunIdle ==
    /\ InitRun
    /\ caller = "import"
    /\ arg = M17
    /\ env = NoOverrides
    /\ upstream = NoUpstream
    /\ cmp = NoPair

\* labels the target registry can hold
GateLabels ==
    { fullImageTag(DEFAULT_REGISTRY, <<"bitnami-pgvector">>, DEFAULT_PGVECTOR_VERSION, M17,
                   DEFAULT_BITNAMI_POSTGRES_VERSION),
      tagShort(DEFAULT_REGISTRY, <<"bitnami-pgvector">>, DEFAULT_PGVECTOR_VERSION, M17),
      versionsHashTag(DEFAULT_REGISTRY, <<"bitnami-pgvector">>, M17, DEFAULT_PGVECTOR_VERSION,
                      DEFAULT_PG_SEARCH_VERSION \o <<"-pg">> \o M17) }

GateInit ==
    /\ RunIdle
    /\ gateRegistry \in SUBSET GateLabels
    /\ gateLabel \in GateLabels
    /\ gateCalls = <<>>
    /\ SinkIdle /\ ReadmeIdle /\ BadgeIdle /\ RunnerIdle /\ RetryIdle

\* getVars.ts:70-94, one call of checkImageExists(gateLabel)
GateCall ==
    /\ Len(gateCalls) < MaxGateCalls
    /\ \E outcome \in InspectOutcomes(gateRegistry, gateLabel) :
         gateCalls' = Append(gateCalls, [registry |-> gateRegistry,
                                         outcome |-> outcome,
                                         exists |-> checkImageExists(outcome)])
    /\ UNCHANGED <<gateRegistry, gateLabel>>
    /\ UNCHANGED <<getVarsVars, sinkVars, readmeVars, badgeVars, runnerVars, retryVars>>

\* another job pushes a label to the registry, or a label is deleted from it
RegistryChange ==
    /\ Len(gateCalls) < MaxGateCalls
    /\ \E l \in GateLabels :
         gateRegistry' = IF l \in gateRegistry THEN gateRegistry \ {l}
                         ELSE gateRegistry \cup {l}
    /\ UNCHANGED <<gateLabel, gateCalls>>
    /\ UNCHANGED <<getVarsVars, sinkVars, readmeVars, badgeVars, runnerVars, retryVars>>

GateNext == GateCall \/ RegistryChange

GateSpec == GateInit /\ [][GateNext]_vars

\* the registry answered the inspection, with the manifest or with not found
Answered(call) == call.outcome \in {"exit0", "exit1"}

\* C23 as stated: two calls of the existence gate with the same label, with
\* no change to the registry contents between the calls, return the same
\* boolean.
C23_Original ==
    \A i, j \in 1..Len(gateCalls) :
        gateCalls[i].registry = gateCalls[j].registry =>
            gateCalls[i].exists = gateCalls[j].exists

\* C23, amended: two calls of the existence gate with the same label, with no
\* change to the registry contents between the calls and with the registry
\* answering both inspections, return the same boolean, which tells whether
\* the registry holds the label.
C23_SameAnswerWhenAnswered ==
    \A i, j \in 1..Len(gateCalls) :
        (/\ gateCalls[i].registry = gateCalls[j].registry
         /\ Answered(gateCalls[i])
         /\ Answered(gateCalls[j]))
        => /\ gateCalls[i].exists = gateCalls[j].exists
           /\ gateCalls[i].exists <=> gateLabel \in gateCalls[i].registry

\* the registry holds the label, did not change, and answered both calls
C23_Witness ==
    /\ Len(gateCalls) = 2
    /\ gateCalls[1].registry = gateCalls[2].registry
    /\ gateLabel \in gateCalls[1].registry
    /\ Answered(gateCalls[1]) /\ Answered(gateCalls[2])
    /\ gateCalls[1].exists /\ gateCalls[2].exists

-----------------------------------------------------------------------------
(* The fields of a version set resolved concurrently *)

ConcInit ==
    /\ InitRun
    /\ ToolsIdle
    /\ caller = "import"
    /\ \/ arg = M17 /\ env["PG_MAJOR_VERSION"] = Undefined
       \/ arg = Undefined /\ env["PG_MAJOR_VERSION"] = M16
    /\ \A n \in EnvNames \ {"PG_MAJOR_VERSION", "PGVECTOR_VERSION"} : env[n] = Undefined
    /\ env["PGVECTOR_VERSION"] \in {Undefined, <<"0.7.0">>}
    /\ upstream \in [bitnami : Responses(RerunBitnamiNames, MaxTags),
                     paradedb : Responses(RerunParadeDBNames, MaxTags)]
    /\ cmp = NoPair

\* the tag-listing request of a field leaves
ConcRequest ==
    /\ pc = "bitnami"
    /\ \E repo \in {bitnamiRepo, paradedbRepo} \ requests :
         requests' = requests \cup {repo}
    /\ UNCHANGED toolVars
    /\ UNCHANGED <<caller, arg, push, env, pc, pgMajorVersion, data, bitnamiName,
                   pgvectorName, pgSearchName, repoName, imageVars, checkedTag, registry,
                   warnings, errors, exitCode, thrown, buildCalls, completed,
                   inspectExit, upstream, firstVars, cmp, command>>

\* a fetch that reads whichever response arrived last
resolvePgSearchField_LastResponse(major, resp) ==
    selectPgSearchName(major, fetchLatestPgSearchTag(major, data))

\* getVars.ts:108-118 for the base tag
resolveBitnamiField(major, resp) == selectBitnamiName(fetchLatestBitnamiTag(major, resp))

\* the same steps for the pg_search tag
resolvePgSearchField(major, resp) ==
    selectPgSearchName(major, fetchLatestPgSearchTag(major, resp))

\* the response of the Bitnami listing arrives: getVars.ts:38-67 and 111-118
ConcBitnami ==
    /\ pc = "bitnami"
    /\ bitnamiRepo \in requests
    /\ bitnamiName = Undefined
    /\ LET chosen == resolveBitnamiField(pgMajorVersion, upstream.bitnami)
       IN /\ bitnamiName' = chosen.name
          /\ warnings' = warnings \o chosen.warn
          /\ errors' = errors \o fetchLatestBitnamiTag(pgMajorVersion, upstream.bitnami).error
    /\ data' = upstream.bitnami
    /\ UNCHANGED toolVars
    /\ UNCHANGED <<caller, arg, push, env, pc, pgMajorVersion, pgvectorName, pgSearchName,
                   repoName, imageVars, checkedTag, registry, exitCode, thrown,
                   buildCalls, completed, inspectExit, requests, upstream, firstVars,
                   cmp, command>>

\* the response of the ParadeDB listing arrives
ConcPgSearch ==
    /\ pc = "bitnami"
    /\ paradedbRepo \in requests
    /\ pgSearchName = Undefined
    /\ LET chosen == resolvePgSearchField(pgMajorVersion, upstream.paradedb)
       IN /\ pgSearchName' = chosen.name
          /\ warnings' = warnings \o chosen.warn
          /\ errors' = errors \o fetchLatestPgSearchTag(pgMajorVersion, upstream.paradedb).error
    /\ data' = upstream.paradedb
    /\ UNCHANGED toolVars
    /\ UNCHANGED <<caller, arg, push, env, pc, pgMajorVersion, bitnamiName, pgvectorName,
                   repoName, imageVars, checkedTag, registry, exitCode, thrown,
                   buildCalls, completed, inspectExit, requests, upstream, firstVars,
                   cmp, command>>

\* getVars.ts:120, which waits for nothing
ConcPgvector ==
    /\ pc = "bitnami"
    /\ pgvectorName = Undefined
    /\ pgvectorName' = selectPgvectorName(env)
    /\ UNCHANGED toolVars
    /\ UNCHANGED <<caller, arg, push, env, pc, pgMajorVersion, data, bitnamiName,
                   pgSearchName, repoName, imageVars, checkedTag, registry, warnings,
                   errors, exitCode, thrown, buildCalls, completed, inspectExit,
                   requests, upstream, firstVars, cmp, command>>

\* all fields are resolved: the run goes on with the repository name
ConcJoin ==
    /\ pc = "bitnami"
    /\ bitnamiName # Undefined
    /\ pgvectorName # Undefined
    /\ pgSearchName # Undefined
    /\ pc' = "repo"
    /\ UNCHANGED toolVars
    /\ UNCHANGED <<caller, arg, push, env, pgMajorVersion, data, bitnamiName,
                   pgvectorName, pgSearchName, repoName, imageVars, checkedTag, registry,
                   warnings, errors, exitCode, thrown, buildCalls, completed,
                   inspectExit, requests, upstream, firstVars, cmp, command>>

ConcNext ==
    \/ GetVarsEntry
    \/ ConcRequest
    \/ ConcBitnami
    \/ ConcPgvector
    \/ ConcPgSearch
    \/ ConcJoin

ConcSpec == ConcInit /\ [][ConcNext]_vars

\* what the sequential run of getVars.ts:108-120 resolves against the same
\* listings
SequentialFields ==
    [bitnamiName |-> selectBitnamiName(
                         fetchLatestBitnamiTag(pgMajorVersion, upstream.bitnami)).name,
     pgvectorName |-> selectPgvectorName(env),
     pgSearchName |-> selectPgSearchName(
                          pgMajorVersion,
                          fetchLatestPgSearchTag(pgMajorVersion, upstream.paradedb)).name]

-----------------------------------------------------------------------------
(* Concurrent getVars runs in one environment *)

RunIds == 1..MaxRuns

\* the base tag a run can resolve for its major version line
ResolvableBitnamiNames(major) ==
    {DEFAULT_BITNAMI_POSTGRES_VERSION}
    \cup { n \in BitnamiNames : IsDebianTag(major, [name |-> n]) }

\* the ImageVars of getVars.ts:128-148
ImageVarsOf(major, bitnami, exists) ==
    [bitnamiName |-> bitnami,
     pgvectorName |-> DEFAULT_PGVECTOR_VERSION,
     fullImageTag |-> fullImageTag(DEFAULT_REGISTRY, <<"bitnami-pgvector">>,
                                   DEFAULT_PGVECTOR_VERSION, major, bitnami),
     tagShort |-> tagShort(DEFAULT_REGISTRY, <<"bitnami-pgvector">>,
                           DEFAULT_PGVECTOR_VERSION, major),
     tagFullPgvectorPostgres |->
         tagFullPgvectorPostgres(DEFAULT_REGISTRY, <<"bitnami-pgvector">>,
                                 DEFAULT_PGVECTOR_VERSION, major),
     imageExists |-> exists]

\* the lines getVars.ts:154-165 hands to the writer
OutputLines(v) ==
    << [key |-> "BITNAMI_NAME", value |-> v.bitnamiName],
       [key |-> "PGVECTOR_NAME", value |-> v.pgvectorName],
       [key |-> "FULL_IMAGE_TAG", value |-> v.fullImageTag],
       [key |-> "TAG_SHORT", value |-> v.tagShort],
       [key |-> "TAG_FULL_PGVECTOR_POSTGRES", value |-> v.tagFullPgvectorPostgres],
       [key |-> "IMAGE_EXISTS", value |-> v.imageExists] >>

OutputKeys ==
    {"BITNAMI_NAME", "PGVECTOR_NAME", "FULL_IMAGE_TAG", "TAG_SHORT",
     "TAG_FULL_PGVECTOR_POSTGRES", "IMAGE_EXISTS"}

\* GITHUB_OUTPUT is set to the same path for every run; whether the writer of
\* Bun.file(path).writer() appends to the file or writes from its start is
\* the runtime's choice
SinkInit ==
    /\ RunIdle
    /\ sink \in [mode : {"append", "from_start"}, lines : {<<>>}]
    /\ runs \in [RunIds -> [pc : {"start"}, major : {M16, M17}, vars : {NoVars}]]
    /\ GateIdle /\ ReadmeIdle /\ BadgeIdle /\ RunnerIdle /\ RetryIdle

\* getVars.ts:96-148 of run r
RunResolve(r) ==
    /\ runs[r].pc = "start"
    /\ \E bitnami \in ResolvableBitnamiNames(runs[r].major), exists \in BOOLEAN :
         runs' = [runs EXCEPT ![r].pc = "resolved",
                              ![r].vars = ImageVarsOf(runs[r].major, bitnami, exists)]
    /\ UNCHANGED sink
    /\ UNCHANGED <<getVarsVars, gateVars, readmeVars, badgeVars, runnerVars, retryVars>>

\* what the file holds after a writer flushed its lines
Flushed(file, lines) ==
    IF file.mode = "append"
    THEN [file EXCEPT !.lines = file.lines \o lines]
    ELSE [file EXCEPT !.lines = lines \o SubSeq(file.lines, Len(lines) + 1, Len(file.lines))]

\* getVars.ts:151-167 of run r
RunWriteOutput(r) ==
    /\ runs[r].pc = "resolved"
    /\ sink' = Flushed(sink, OutputLines(runs[r].vars))
    /\ runs' = [runs EXCEPT ![r].pc = "returned"]
    /\ UNCHANGED <<getVarsVars, gateVars, readmeVars, badgeVars, runnerVars, retryVars>>

SinkNext == \E r \in RunIds : RunResolve(r) \/ RunWriteOutput(r)

SinkSpec == SinkInit /\ [][SinkNext]_vars

\* the value the next workflow step reads for a key: the last line that sets it
LastIdx(lines, key) ==
    CHOOSE i \in 1..Len(lines) :
        /\ lines[i].key = key
        /\ \A j \in (i + 1)..Len(lines) : lines[j].key # key

ReadOutput(lines, key) == lines[LastIdx(lines, key)].value

\* what the sink holds after run r, had it run alone
SinkAlone(r) == OutputLines(runs[r].vars)

\* C25 as stated: concurrent resolution runs, for different major version
\* lines or for the same line, do not interfere: a run shares no mutable
\* state with any other run, so each run yields the result it would yield
\* when run alone.
C25_RunsDoNotInterfere ==
    \A r \in RunIds :
        runs[r].pc = "returned" =>
            \A k \in OutputKeys :
                ReadOutput(sink.lines, k) = ReadOutput(SinkAlone(r), k)

-----------------------------------------------------------------------------
(* Base tag and major version line *)

\* C29 as stated: the base component tag in every resolved version set
\* belongs to the requested major version line, i.e. its name starts with
\* `{majorVersionLine}.`, also when the hard-coded default is substituted for
\* a failed or empty lookup.
C29_BaseTagOfMajorLine ==
    bitnamiName # Undefined => startsWith(bitnamiName, tagPrefix(pgMajorVersion))

-----------------------------------------------------------------------------
(* The README updater *)

\* program.opts(): the four flags
ReadmeOptions == [dryRun : BOOLEAN, badgeOnly : BOOLEAN, tagsOnly : BOOLEAN, silent : BOOLEAN]

\* a README as the updater sees it: the version in the pgvector badge ("none"
\* without a badge) and the text between the tag markers ("nomarkers" without
\* them)
ReadmeContents ==
    [badge : {"none", "0.7.0", "0.8.0"}, tags : {"nomarkers", "old tags", "new tags"}]

\* readmeContent = ""
NoContent == [badge |-> "", tags |-> ""]

\* the updater of updateReadmeBadge.ts starts at "main", the one of
\* src/unnamed/part_007, which writes once at its end, at "main_final"
ReadmeInit ==
    /\ RunIdle
    /\ options \in ReadmeOptions
    /\ readmePc \in {"main", "main_final"}
    /\ readmeFile \in ReadmeContents
    /\ readmeContent = NoContent
    /\ writes = <<>>
    /\ GateIdle /\ SinkIdle /\ BadgeIdle /\ RunnerIdle /\ RetryIdle

\* a step that writes whether or not --dry-run was given
writesFile_Always(dryRun) == TRUE

\* updateReadmeBadge.ts:77-82 and 184-189: `if (dryRun) return updatedContent`
\* before writeFileSync
writesFile(dryRun) == ~dryRun

\* updateReadmeBadge.ts:71-74
replaceBadge(content, version) ==
    IF content.badge = "none" THEN content ELSE [content EXCEPT !.badge = version]

\* updateReadmeBadge.ts:181
replaceTags(content, tagsMarkdown) == [content EXCEPT !.tags = tagsMarkdown]

\* updateReadmeBadge.ts:198-241
Main ==
    /\ readmePc = "main"
    /\ readmePc' = IF ~options.tagsOnly THEN "badge"
                   ELSE IF ~options.badgeOnly THEN "tags" ELSE "done"
    /\ readmeContent' = IF options.tagsOnly /\ ~options.dryRun THEN readmeFile
                        ELSE readmeContent
    /\ UNCHANGED <<options, readmeFile, writes>>
    /\ UNCHANGED <<getVarsVars, gateVars, sinkVars, badgeVars, runnerVars, retryVars>>

\* updateReadmeBadge.ts:39-86, and main up to line 244
UpdatePgvectorBadge ==
    /\ readmePc = "badge"
    /\ \E pgvectorVersion \in {"", "0.8.0"} :
         IF pgvectorVersion = ""
         THEN /\ readmePc' = "exited"
              /\ UNCHANGED <<readmeFile, readmeContent, writes>>
         ELSE LET updatedContent == replaceBadge(readmeFile, pgvectorVersion)
              IN /\ readmeContent' = updatedContent
                 /\ IF writesFile(options.dryRun)
                    THEN /\ readmeFile' = updatedContent
                         /\ writes' = Append(writes, updatedContent)
                    ELSE UNCHANGED <<readmeFile, writes>>
                 /\ readmePc' = IF ~options.badgeOnly THEN "tags" ELSE "done"
    /\ UNCHANGED options
    /\ UNCHANGED <<getVarsVars, gateVars, sinkVars, badgeVars, runnerVars, retryVars>>

\* updateReadmeBadge.ts:152-193, and main lines 244-272
UpdateAvailableTagsSection ==
    /\ readmePc = "tags"
    /\ LET content == IF readmeContent # NoContent THEN readmeContent ELSE readmeFile
           updatedContent == replaceTags(content, "new tags")
       IN IF content.tags = "nomarkers"
          THEN /\ readmePc' = "exited"
               /\ UNCHANGED <<readmeFile, writes>>
          ELSE /\ IF writesFile(options.dryRun)
                  THEN /\ readmeFile' = updatedContent
                       /\ writes' = Append(writes, updatedContent)
                  ELSE UNCHANGED <<readmeFile, writes>>
               /\ readmePc' = "done"
    /\ UNCHANGED <<options, readmeContent>>
    /\ UNCHANGED <<getVarsVars, gateVars, sinkVars, badgeVars, runnerVars, retryVars>>

\* src/unnamed/part_007:142-328: everything is updated in memory
MainInMemory ==
    /\ readmePc = "main_final"
    /\ \E readOk \in BOOLEAN, pgvectorVersion \in {"", "0.8.0"} :
         LET badged == IF ~options.tagsOnly /\ pgvectorVersion # ""
                       THEN replaceBadge(readmeFile, pgvectorVersion) ELSE readmeFile
         IN IF ~readOk \/ (~options.badgeOnly /\ badged.tags = "nomarkers")
            THEN /\ readmePc' = "exited"
                 /\ UNCHANGED readmeContent
            ELSE /\ readmeContent' = IF ~options.badgeOnly
                                     THEN replaceTags(badged, "new tags") ELSE badged
                 /\ readmePc' = "final"
    /\ UNCHANGED <<options, readmeFile, writes>>
    /\ UNCHANGED <<getVarsVars, gateVars, sinkVars, badgeVars, runnerVars, retryVars>>

\* src/unnamed/part_007:330-360
MainFinalWrite ==
    /\ readmePc = "final"
    /\ LET contentChangedOverall == readmeContent # readmeFile
       IN IF contentChangedOverall /\ writesFile(options.dryRun)
          THEN \E writeOk \in BOOLEAN :
                 IF writeOk
                 THEN /\ readmeFile' = readmeContent
                      /\ writes' = Append(writes, readmeContent)
                      /\ readmePc' = "done"
                 ELSE /\ readmePc' = "exited"
                      /\ UNCHANGED <<readmeFile, writes>>
          ELSE /\ readmePc' = "done"
               /\ UNCHANGED <<readmeFile, writes>>
    /\ UNCHANGED <<options, readmeContent>>
    /\ UNCHANGED <<getVarsVars, gateVars, sinkVars, badgeVars, runnerVars, retryVars>>

ReadmeNext ==
    \/ Main
    \/ UpdatePgvectorBadge
    \/ UpdateAvailableTagsSection
    \/ MainInMemory
    \/ MainFinalWrite

ReadmeSpec == ReadmeInit /\ [][ReadmeNext]_vars

\* C26: when the README updater runs with --dry-run, the README file is
\* never written, whatever badge or tag changes were computed and for every
\* combination of --badge-only, --tags-only and --silent.
C26_DryRunNeverWrites == options.dryRun => writes = <<>>

\* a dry run that computed a new badge and a new tag list and left the file
\* as it was
C26_Witness ==
    /\ options.dryRun
    /\ ~options.badgeOnly /\ ~options.tagsOnly
    /\ readmePc = "done"
    /\ readmeContent.badge = "0.8.0"
    /\ readmeFile.badge = "0.7.0"
    /\ readmeFile.tags = "old tags"
    /\ writes = <<>>

-----------------------------------------------------------------------------
(* The shields.io badge manager *)

\* A badge URL is kept as the parts of `label-message-color` between the
\* hyphens, still URL-encoded, with the .svg extension and the host apart;
\* a message is kept as its parts between hyphens, so "0.15.18--pg17" is
\* <<"0.15.18", "", "pg17">>.

\* characters encodeURIComponent escapes, in the strings of this model
Escapes == { <<"16 | 17", "16%20%7C%2017">> }

encodeURIComponent(str) ==
    IF \E e \in Escapes : e[1] = str THEN (CHOOSE e \in Escapes : e[1] = str)[2] ELSE str

decodeURIComponent(str) ==
    IF \E e \in Escapes : e[2] = str THEN (CHOOSE e \in Escapes : e[2] = str)[1] ELSE str

\* parts that contain a dot
HasDot(part) == part \in {"0.8.0", "0.15.18", "0.9.0", "0.15.19"}

\* the badges of src/README.md:1 and of the sample of index.test.ts:9-19
BadgeUrls ==
    { [shields |-> TRUE, parts |-> <<"pgvector", "0.8.0", "green">>, svg |-> TRUE],
      [shields |-> TRUE, parts |-> <<"pg_search", "0.15.18", "pg17", "blue">>, svg |-> TRUE],
      [shields |-> TRUE, parts |-> <<"pg_search", "0.15.18", "", "pg17", "blue">>, svg |-> TRUE],
      [shields |-> TRUE, parts |-> <<"PostgreSQL", "16%20%7C%2017", "blue">>, svg |-> TRUE],
      [shields |-> TRUE, parts |-> <<"GHCR", "latest", "blue">>, svg |-> FALSE],
      [shields |-> FALSE, parts |-> <<"badge">>, svg |-> TRUE] }

\* options of an update: message and color, Undefined when not given
BadgeUpdates ==
    { u \in [index : 1..MaxBadges,
             message : {Undefined, <<"0.9.0">>, <<"0.15.19", "", "pg17">>, <<"16 | 17">>},
             color : {Undefined, <<"brightgreen">>}] :
        u.message # Undefined \/ u.color # Undefined }

Markdowns == UNION { [1..n -> BadgeUrls] : n \in 1..MaxBadges }

NoResult == [state |-> "none", text |-> <<>>]
Threw == [state |-> "threw", text |-> <<>>]

\* part_004:217: /^([^-]+)-(.+)-([^-]+)$/ on the base part without .svg
parsesAsBadge(url) ==
    LET n == Len(url.parts)
    IN /\ url.shields
       /\ n >= 3
       /\ url.parts[1] # ""
       /\ url.parts[n] # ""
       /\ (n > 3 \/ url.parts[2] # "")

parseShieldsIoBadge(url) ==
    LET n == Len(url.parts)
    IN IF parsesAsBadge(url)
       THEN [label |-> decodeURIComponent(url.parts[1]),
             message |-> [k \in 1..(n - 2) |-> decodeURIComponent(url.parts[k + 1])],
             color |-> <<url.parts[n]>>,
             url |-> url]
       ELSE Null

\* part_004:150-183: the shields.io badges that parse, in order, each with its
\* place in the text
parseBadgesFromMarkdown(md) ==
    LET found == SelectSeq([i \in 1..Len(md) |-> i],
                           LAMBDA i : parsesAsBadge(md[i]))
    IN [k \in 1..Len(found) |->
            [startIndex |-> found[k], badge |-> parseShieldsIoBadge(md[found[k]])]]

\* part_004:287: /([^-]+)-([^-]+)-([^.]+)\.svg/ on the base part, leftmost
\* match: the part the label starts in, 0 without a match
baseMatch(url) ==
    LET n == Len(url.parts)
        starts == { i \in 1..(n - 2) :
                      /\ url.parts[i] # ""
                      /\ url.parts[i + 1] # ""
                      /\ \A k \in (i + 2)..n : ~HasDot(url.parts[k])
                      /\ (n > i + 2 \/ url.parts[i + 2] # "") }
    IN IF url.shields /\ url.svg /\ starts # {}
       THEN CHOOSE i \in starts : \A j \in starts : i <= j
       ELSE 0

\* part_004:256-334
updateBadgeUrl(originalUrl, update) ==
    LET i == baseMatch(originalUrl)
        n == Len(originalUrl.parts)
        message == IF update.message # Undefined
                   THEN [k \in 1..Len(update.message) |-> encodeURIComponent(update.message[k])]
                   ELSE <<originalUrl.parts[i + 1]>>
        color == IF update.color # Undefined THEN update.color
                 ELSE SubSeq(originalUrl.parts, i + 2, n)
    IN IF i = 0 THEN originalUrl
       ELSE [shields |-> TRUE,
             parts |-> <<originalUrl.parts[i]>> \o message \o color,
             svg |-> TRUE]

\* part_004:352-397
updateBadgeInMarkdown(md, badgeIndex, update) ==
    LET badges == parseBadgesFromMarkdown(md)
    IN IF badgeIndex < 1 \/ badgeIndex > Len(badges) THEN Threw
       ELSE [state |-> "updated",
             text |-> [md EXCEPT ![badges[badgeIndex].startIndex] =
                                     updateBadgeUrl(badges[badgeIndex].badge.url, update)]]

BadgeInit ==
    /\ RunIdle
    /\ markdown \in Markdowns
    /\ badgeUpdate \in BadgeUpdates
    /\ updatedMarkdown = NoResult
    /\ GateIdle /\ SinkIdle /\ ReadmeIdle /\ RunnerIdle /\ RetryIdle

UpdateBadge ==
    /\ updatedMarkdown = NoResult
    /\ updatedMarkdown' = updateBadgeInMarkdown(markdown, badgeUpdate.index, badgeUpdate)
    /\ UNCHANGED <<markdown, badgeUpdate>>
    /\ UNCHANGED <<getVarsVars, gateVars, sinkVars, readmeVars, runnerVars, retryVars>>

BadgeNext == UpdateBadge

BadgeSpec == BadgeInit /\ [][BadgeNext]_vars

\* the update was applied to a badge that parseBadgesFromMarkdown found
Updated == updatedMarkdown.state = "updated"

\* C27 as stated: for every shields.io badge found by parseBadgesFromMarkdown
\* and every update of its message and/or color through
\* updateBadgeInMarkdown, re-parsing the resulting markdown yields a badge at
\* the same index whose message and color equal the requested values.
C27_UpdateRoundTrip ==
    Updated =>
        LET reparsed == parseBadgesFromMarkdown(updatedMarkdown.text)
            i == badgeUpdate.index
        IN /\ i <= Len(reparsed)
           /\ badgeUpdate.message # Undefined => reparsed[i].badge.message = badgeUpdate.message
           /\ badgeUpdate.color # Undefined => reparsed[i].badge.color = badgeUpdate.color

-----------------------------------------------------------------------------
(* run-tests: start a test database container, run the tests, clean up *)

\* The container named pgvector-test-db-pg{version}: "absent", or present
\* and "created" (never started), "running" or "stopped".
ContainerStates == {"absent", "created", "running", "stopped"}

\* Readme.md:170-176: the --pg option; "abc" stands for a value parseInt
\* does not read as a number
PgOptions == {"16", "17", "abc"}

RunnerInit ==
    /\ RunIdle
    /\ container \in ContainerStates
    /\ pgOption \in PgOptions
    /\ runnerPc = "action"
    /\ testExitCode = 1
    /\ polls = 0
    /\ GateIdle /\ SinkIdle /\ ReadmeIdle /\ BadgeIdle /\ RetryIdle

RunnerUnchanged == UNCHANGED <<getVarsVars, gateVars, sinkVars, readmeVars, badgeVars, retryVars>>

\* Readme.md:177-182
Action ==
    /\ runnerPc = "action"
    /\ runnerPc' = IF pgOption = "abc" THEN "exited" ELSE "getVars"
    /\ UNCHANGED <<container, testExitCode, pgOption, polls>>
    /\ RunnerUnchanged

\* Readme.md:99-107: tagShort is `{pgvector}-pg{line}` and never empty, so
\* getVars either returns a usable tag or throws
FetchVars ==
    /\ runnerPc = "getVars"
    /\ runnerPc' \in {"cleanup_previous", "catch"}
    /\ UNCHANGED <<container, testExitCode, pgOption, polls>>
    /\ RunnerUnchanged

\* Readme.md:110-112
CleanupPrevious ==
    /\ runnerPc = "cleanup_previous"
    /\ container' = "absent"
    /\ runnerPc' = "run"
    /\ UNCHANGED <<testExitCode, pgOption, polls>>
    /\ RunnerUnchanged

\* Readme.md:116-128: docker run -d starts the container, or fails before
\* it creates one (no such image), or fails after it created one (the host
\* port is taken); a failure is answered with process.exit(1)
DockerRun ==
    /\ runnerPc = "run"
    /\ \E outcome \in {"started", "no_container", "not_started"} :
         /\ container' = CASE outcome = "started" -> "running"
                           [] outcome = "no_container" -> "absent"
                           [] outcome = "not_started" -> "created"
         /\ runnerPc' = IF outcome = "started" THEN "wait" ELSE "exited"
    /\ UNCHANGED <<testExitCode, pgOption, polls>>
    /\ RunnerUnchanged

\* Readme.md:79-92, 131-133: one pg_isready check of waitForDbReady; when
\* the time is up the caller throws
WaitForDbReady ==
    /\ runnerPc = "wait"
    /\ IF polls < MaxPolls
       THEN \E ready \in BOOLEAN :
              /\ polls' = polls + 1
              /\ runnerPc' = IF ready THEN "tests" ELSE "wait"
       ELSE /\ runnerPc' = "catch"
            /\ UNCHANGED polls
    /\ UNCHANGED <<container, testExitCode, pgOption>>
    /\ RunnerUnchanged

\* Readme.md:135-149
BunTest ==
    /\ runnerPc = "tests"
    /\ testExitCode' \in {0, 1}
    /\ runnerPc' = "finally"
    /\ UNCHANGED <<container, pgOption, polls>>
    /\ RunnerUnchanged

\* Readme.md:151-153
CatchError ==
    /\ runnerPc = "catch"
    /\ testExitCode' = 1
    /\ runnerPc' = "finally"
    /\ UNCHANGED <<container, pgOption, polls>>
    /\ RunnerUnchanged

\* Readme.md:154-161: docker stop, docker rm
Cleanup ==
    /\ runnerPc = "finally"
    /\ container' = "absent"
    /\ runnerPc' = "exit"
    /\ UNCHANGED <<testExitCode, pgOption, polls>>
    /\ RunnerUnchanged

\* Readme.md:163
ProcessExit ==
    /\ runnerPc = "exit"
    /\ runnerPc' = "exited"
    /\ UNCHANGED <<container, testExitCode, pgOption, polls>>
    /\ RunnerUnchanged

RunnerNext ==
    \/ Action
    \/ FetchVars
    \/ CleanupPrevious
    \/ DockerRun
    \/ WaitForDbReady
    \/ BunTest
    \/ CatchError
    \/ Cleanup
    \/ ProcessExit

RunnerSpec == RunnerInit /\ [][RunnerNext]_vars

\* C28 as stated: on every path through the test runner (container start
\* failure, database never ready, tests passing, tests failing, error
\* thrown) the container is stopped and removed before the process exits.
C28_ContainerRemovedAtExit ==
    (runnerPc = "exited" /\ pgOption # "abc") => container = "absent"

-----------------------------------------------------------------------------
(* connectWithRetry of the database tests *)

\* what client.connect() rejects with: the server refuses the connection, or
\* connectionTimeoutMillis passes (the callers set it to 10000)
ConnectErrors == {"ECONNREFUSED", "timeout expired"}

NoError == "<none>"

RetryInit ==
    /\ RunIdle
    /\ maxRetries \in 0..MaxMaxRetries
    /\ retries = 0
    /\ clients = <<>>
    /\ retryPc = "while"
    /\ retryError = NoError
    /\ GateIdle /\ SinkIdle /\ ReadmeIdle /\ BadgeIdle /\ RunnerIdle

RetryUnchanged == UNCHANGED <<getVarsVars, gateVars, sinkVars, readmeVars, badgeVars, runnerVars>>

exhausted_Never(count, limit) == FALSE

\* search_test.ts:38
exhausted(count, limit) == count >= limit

\* search_test.ts:18-19, 48: the loop test; a new Client for the attempt, or
\* the throw after the loop
NewClient ==
    /\ retryPc = "while"
    /\ IF retries < maxRetries
       THEN /\ clients' = Append(clients, [state |-> "new", error |-> NoError])
            /\ retryPc' = "connect"
            /\ UNCHANGED retryError
       ELSE /\ retryPc' = "threw"
            /\ retryError' = "Failed to connect after retries"
            /\ UNCHANGED clients
    /\ UNCHANGED <<maxRetries, retries>>
    /\ RetryUnchanged

\* search_test.ts:21-30: await client.connect() resolves and the client is
\* returned, or rejects and the failure is counted
Connect ==
    /\ retryPc = "connect"
    /\ \/ /\ clients' = [clients EXCEPT ![Len(clients)].state = "connected"]
          /\ retryPc' = "returned"
          /\ UNCHANGED retries
       \/ \E err \in ConnectErrors :
            /\ clients' = [clients EXCEPT ![Len(clients)] = [state |-> "failed", error |-> err]]
            /\ retries' = retries + 1
            /\ retryPc' = "end"
    /\ UNCHANGED <<maxRetries, retryError>>
    /\ RetryUnchanged

\* search_test.ts:32-41: await client.end(), whose own error is ignored, then
\* the rethrow of the connection error once the attempts are used up
EndClient ==
    /\ retryPc = "end"
    /\ clients' = [clients EXCEPT ![Len(clients)].state = "ended"]
    /\ IF exhausted(retries, maxRetries)
       THEN /\ retryPc' = "threw"
            /\ retryError' = clients[Len(clients)].error
       ELSE /\ retryPc' = "sleep"
            /\ UNCHANGED retryError
    /\ UNCHANGED <<maxRetries, retries>>
    /\ RetryUnchanged

\* search_test.ts:43-44: the timer of retryInterval fires
Sleep ==
    /\ retryPc = "sleep"
    /\ retryPc' = "while"
    /\ UNCHANGED <<maxRetries, retries, clients, retryError>>
    /\ RetryUnchanged

RetryNext ==
    \/ NewClient
    \/ Connect
    \/ EndClient
    \/ Sleep

\* Every await of connectWithRetry settles: connect() resolves or rejects
\* within connectionTimeoutMillis, end() of a client that failed to connect
\* settles, and the timer fires.
RetrySpec == RetryInit /\ [][RetryNext]_vars /\ WF_vars(RetryNext)

RetryEnded == retryPc \in {"returned", "threw"}

\* every client before the current one failed to connect and was ended
EarlierClientsEnded ==
    \A i \in 1..(Len(clients) - 1) : clients[i].state = "ended" /\ clients[i].error # NoError

AttemptsWithinLimit ==
    /\ Len(clients) <= maxRetries
    /\ EarlierClientsEnded
    /\ retryPc = "returned" => clients[Len(clients)].state = "connected"
    /\ (retryPc = "threw" /\ maxRetries >= 1) =>
          /\ Len(clients) = maxRetries
          /\ clients[maxRetries].state = "ended"
          /\ retryError = clients[maxRetries].error
          /\ retryError \in ConnectErrors

\* C30: connectWithRetry always terminates after at most maxRetries
\* attempts: it returns the client of the first attempt that connects, has
\* closed the client of every failed attempt before the next attempt, and
\* after the maxRetries-th consecutive failure throws that attempt's
\* connection error.
C30_TerminatesWithinMaxRetries == []AttemptsWithinLimit /\ <>RetryEnded

\* all attempts failed, the last one for another reason than the first
C30_Witness ==
    /\ retryPc = "threw"
    /\ maxRetries >= 2
    /\ Len(clients) = maxRetries
    /\ clients[1].error # retryError

====
